---- MODULE Spec2Model ----
(***************************************************************************)
(* Network coordinator of aos_communicationmanager                        *)
(* (src/networkmanager/networkmanager.go): provider-network reconcile,    *)
(* per-instance network parameters, DNS host registration and firewall    *)
(* rule synthesis.  Every public method is one action; the private        *)
(* methods are operators on a record m that holds the manager's fields.   *)
(*                                                                         *)
(* Encoding of values:                                                     *)
(*   - a subnet is its index s in the aggregate (CIDR text = s);           *)
(*   - the text of the IP of host h in subnet s is the positive integer    *)
(*     s * (MaxHosts + 1) + h; the text "<nil>" is 0; the text "?<hex>"    *)
(*     that net.IP.String() yields for a byte slice that is no IP is the   *)
(*     negative of the integer whose text the bytes spell;                 *)
(*   - a net.IP value is [valid, v]: a parsed address (valid) or the raw   *)
(*     bytes of a text (not valid);                                        *)
(*   - a Go map is a function whose DOMAIN is the set of keys present.     *)
(***************************************************************************)
EXTENDS Integers, Sequences, FiniteSets, TLC

\* ------------------------------------------------------------- bounds
NumSubnets == 2
MaxHosts == 2
MaxCalls == 3
MaxVlan == 2
MaxProviders == 2

Networks == {"netX", "netY"}
Nodes == {"nodeA", "nodeB"}

IdA == [ServiceID |-> "svc", SubjectID |-> "sub", Instance |-> 0]
IdB == [ServiceID |-> "svc", SubjectID |-> "sub", Instance |-> 1]
IdC == [ServiceID |-> "", SubjectID |-> "sub", Instance |-> 0]
Idents == {IdA, IdB, IdC}

\* The NetworkParameters (policy) values a caller passes in.
PExpose == [Hosts |-> <<>>, AllowConnections |-> <<>>, ExposePorts |-> <<"80">>]
PAllow == [Hosts |-> <<"h1">>, AllowConnections |-> <<"svc/80">>, ExposePorts |-> <<>>]
PBadExpose == [Hosts |-> <<>>, AllowConnections |-> <<>>, ExposePorts |-> <<"80/tcp/x">>]
PBoth == [Hosts |-> <<>>, AllowConnections |-> <<"svc/80/udp", "other/80", "svc/80">>,
          ExposePorts |-> <<"80/udp", "80">>]
Policies == {PExpose, PAllow, PBadExpose, PBoth}

RECURSIVE SeqsUpTo(_, _)
SeqsUpTo(S, n) ==
    IF n = 0 THEN {<<>>}
    ELSE LET shorter == SeqsUpTo(S, n - 1)
         IN shorter \cup {Append(q, x) : q \in {r \in shorter : Len(r) = n - 1}, x \in S}

ProviderLists == SeqsUpTo(Networks, MaxProviders)

\* ------------------------------------------------------------- Go values
EmptyMap == [k \in {} |-> 0]

MapPut(f, k, v) == [x \in (DOMAIN f) \cup {k} |-> IF x = k THEN v ELSE f[x]]

MapDel(f, k) == [x \in (DOMAIN f) \ {k} |-> f[x]]

Range(q) == {q[i] : i \in 1..Len(q)}

SetMin(S) == CHOOSE x \in S : \A y \in S : x <= y

dnsIPAddress == "dnsip"

NilIP == [valid |-> FALSE, v |-> 0]

\* net.IP(text): a conversion of the text's bytes, not a parse. Dotted text
\* is 7..15 bytes long, never the 4 or 16 bytes of an address.
CastIP(text) == [valid |-> FALSE, v |-> text]

\* net.IP.String()
IPString(ip) == IF ip.valid THEN ip.v ELSE 0 - ip.v

\* net.ParseIP(text)
ParseIP(text) == [ok |-> text > 0, ip |-> [valid |-> TRUE, v |-> text]]

\* net.ParseCIDR(text)
ParseCIDR(text) == [ok |-> text >= 1, ipnet |-> text]

HostIP(s, h) == s * (MaxHosts + 1) + h

\* net.IPNet.Contains
Contains(ipnet, ip) == ip.valid /\ ip.v \div (MaxHosts + 1) = ipnet

\* strings.Split(s, "/") on the texts the policies use
Split(s) ==
    CASE s = "svc/80" -> <<"svc", "80">>
      [] s = "svc/80/udp" -> <<"svc", "80", "udp">>
      [] s = "svc/81" -> <<"svc", "81">>
      [] s = "other/80" -> <<"other", "80">>
      [] s = "svc" -> <<"svc">>
      [] s = "80" -> <<"80">>
      [] s = "80/udp" -> <<"80", "udp">>
      [] s = "80/tcp/x" -> <<"80", "tcp", "x">>
      [] s = "svc/80/tcp/x" -> <<"svc", "80", "tcp", "x">>
      [] OTHER -> <<s>>

allowedConnectionsExpectedLen == 3
exposePortConfigExpectedLen == 2

ZeroNP == [NetworkID |-> "", Subnet |-> 0, IP |-> 0, VlanID |-> 0,
           DNSServers |-> <<>>, FirewallRules |-> <<>>]

NoIdent == [ServiceID |-> "", SubjectID |-> "", Instance |-> 0]

\* One call of an external collaborator, as recorded in m.log.
Call(name, net, node, id, list) ==
    [call |-> name, net |-> net, node |-> node, id |-> id, list |-> list]

Logged(m, c) == [m EXCEPT !.log = Append(@, c)]

\* ------------------------------------------------------------- IPAM
\* ipam[n] = [subnet, used]: the subnet carved for network n (0: none) and
\* the IP texts in use in it.
NewIpam == [n \in Networks |-> [subnet |-> 0, used |-> {}]]

prepareSubnet(ipam, networkID) ==
    LET cur == ipam[networkID].subnet
        freeSubnets == {s \in 1..NumSubnets : \A k \in Networks : ipam[k].subnet # s}
        sub == IF cur # 0 THEN cur
               ELSE IF freeSubnets = {} THEN 0 ELSE SetMin(freeSubnets)
        used == IF cur # 0 THEN ipam[networkID].used ELSE {}
        freeHosts == {h \in 1..MaxHosts : HostIP(sub, h) \notin used}
    IN IF sub = 0 \/ freeHosts = {}
       THEN [err |-> TRUE, ipam |-> ipam, subnet |-> 0, ip |-> NilIP]
       ELSE LET text == HostIP(sub, SetMin(freeHosts))
            IN [err |-> FALSE,
                ipam |-> [ipam EXCEPT ![networkID] = [subnet |-> sub, used |-> used \cup {text}]],
                subnet |-> sub,
                ip |-> [valid |-> TRUE, v |-> text]]

releaseIPToSubnet(ipam, networkID, ip) ==
    IF ip.valid /\ ipam[networkID].subnet # 0
    THEN [ipam EXCEPT ![networkID].used = @ \ {ip.v}]
    ELSE ipam

releaseIPNetPool(ipam, networkID) ==
    [ipam EXCEPT ![networkID] = [subnet |-> 0, used |-> {}]]

\* ipam.removeAllocatedSubnets: mark what the persisted rows hold as in use.
removeAllocatedSubnets(networksInfo, instancesInfo) ==
    [n \in Networks |->
        LET texts == {b.np.IP : b \in {x \in networksInfo : x.np.NetworkID = n}}
                     \cup {i.NetworkParameters.IP :
                              i \in {x \in instancesInfo : x.NetworkParameters.NetworkID = n}}
            subs == {b.np.Subnet : b \in {x \in networksInfo : x.np.NetworkID = n}}
                    \cup {i.NetworkParameters.Subnet :
                             i \in {x \in instancesInfo : x.NetworkParameters.NetworkID = n}}
        IN IF subs = {} THEN [subnet |-> 0, used |-> {}]
           ELSE [subnet |-> SetMin(subs), used |-> texts]]

\* ------------------------------------------------------------- DNS registry
\* dns.addHosts(hosts, ip): overwrite the entry of ip.
addHosts(m, hosts, ip, fails) ==
    IF fails THEN [m |-> m, err |-> TRUE]
    ELSE [m |-> [m EXCEPT !.dns = MapPut(@, ip, hosts)], err |-> FALSE]

\* ------------------------------------------------------------- Storage
\* si: InstanceIdent -> InstanceNetworkInfo; sn: set of binding rows.
AddNetworkInstanceInfo(m, info) ==
    Logged([m EXCEPT !.si = MapPut(@, info.InstanceIdent, info)],
           Call("AddNetworkInstanceInfo", info.NetworkParameters.NetworkID, "",
                info.InstanceIdent, <<>>))

RemoveNetworkInstanceInfo(m, instanceIdent, fails) ==
    Logged(IF fails THEN m ELSE [m EXCEPT !.si = MapDel(@, instanceIdent)],
           Call("RemoveNetworkInstanceInfo", "", "", instanceIdent, <<>>))

AddNetworkInfo(m, info) ==
    Logged([m EXCEPT !.sn =
               {r \in @ : ~(r.np.NetworkID = info.np.NetworkID /\ r.NodeID = info.NodeID)}
               \cup {info}],
           Call("AddNetworkInfo", info.np.NetworkID, info.NodeID, NoIdent, <<>>))

RemoveNetworkInfo(m, networkID, nodeID, fails) ==
    Logged(IF fails THEN m
           ELSE [m EXCEPT !.sn = {r \in @ : ~(r.np.NetworkID = networkID /\ r.NodeID = nodeID)}],
           Call("RemoveNetworkInfo", networkID, nodeID, NoIdent, <<>>))

\* ------------------------------------------------------------- cache
\* m = [instancesData, providerNetworks, ipamSubnet, dns, si, sn, log]:
\* the NetworkManager's fields, dns.hosts, the storage's rows and the calls
\* made to the external collaborators during the current public call.

\* manager.instancesData[networkID] (a nil map when the key is absent)
instancesOf(m, networkID) ==
    IF networkID \in DOMAIN m.instancesData THEN m.instancesData[networkID] ELSE EmptyMap

deleteNetworkParametersFromCache(m, networkID, instanceIdent, ip) ==
    [m EXCEPT !.instancesData =
                  IF networkID \in DOMAIN @
                  THEN [@ EXCEPT ![networkID] = MapDel(@, instanceIdent)]
                  ELSE @,
              !.dns = MapDel(@, IPString(ip)),
              !.ipamSubnet = releaseIPToSubnet(@, networkID, ip)]

addNetworkParametersToCache(m, instanceNetworkInfo) ==
    LET networkID == instanceNetworkInfo.NetworkParameters.NetworkID
    IN [m EXCEPT !.instancesData =
           MapPut(@, networkID,
                  MapPut(instancesOf(m, networkID),
                         instanceNetworkInfo.InstanceIdent, instanceNetworkInfo))]

\* The map is ranged over in an unspecified order: when the identity is a key
\* of several inner maps, any of them may be the one found.
getNetworkParametersToCache(m, instanceIdent) ==
    LET hits == {n \in DOMAIN m.instancesData : instanceIdent \in DOMAIN m.instancesData[n]}
    IN IF hits = {}
       THEN {[params |-> ZeroNP, networkID |-> "", found |-> FALSE]}
       ELSE {[params |-> m.instancesData[n][instanceIdent].NetworkParameters,
              networkID |-> n, found |-> TRUE] : n \in hits}

\* A faulty removeInstanceNetworkParameters: the storage row is left behind.
removeInstanceNetworkParametersCacheOnly(m, networkID, instanceIdent, ip, rmFails) ==
    deleteNetworkParametersFromCache(m, networkID, instanceIdent, ip)

removeInstanceNetworkParameters(m, networkID, instanceIdent, ip, rmFails) ==
    RemoveNetworkInstanceInfo(
        deleteNetworkParametersFromCache(m, networkID, instanceIdent, ip),
        instanceIdent, rmFails)

\* ------------------------------------------------------------- policy parsing
parseAllowConnection(connection) ==
    LET connConf == Split(connection)
    IN IF Len(connConf) > allowedConnectionsExpectedLen \/ Len(connConf) < 2
       THEN [err |-> TRUE, serviceID |-> "", port |-> "", protocol |-> ""]
       ELSE [err |-> FALSE, serviceID |-> connConf[1], port |-> connConf[2],
             protocol |-> IF Len(connConf) = allowedConnectionsExpectedLen
                          THEN connConf[3] ELSE "tcp"]

ruleExists(info, port, protocol) ==
    \E i \in 1..Len(info.Rules) :
        info.Rules[i].Port = port /\ protocol = info.Rules[i].Protocol

parseExposedPorts(exposePorts) ==
    LET bad(e) == Len(Split(e)) > exposePortConfigExpectedLen \/ Len(Split(e)) = 0
    IN IF \E i \in 1..Len(exposePorts) : bad(exposePorts[i])
       THEN [err |-> TRUE, rules |-> <<>>]
       ELSE [err |-> FALSE,
             rules |-> [i \in 1..Len(exposePorts) |->
                          LET portConfig == Split(exposePorts[i])
                          IN [Protocol |-> IF Len(portConfig) = exposePortConfigExpectedLen
                                           THEN portConfig[2] ELSE "tcp",
                              Port |-> portConfig[1]]]]

\* ------------------------------------------------------------- firewall rules
\* A faulty checkIPInSubnet: no address is ever reported as in the subnet.
checkIPInSubnetNever(subnet, ip) ==
    [err |-> ~ParseCIDR(subnet).ok \/ ~ParseIP(ip).ok, same |-> FALSE]

checkIPInSubnet(subnet, ip) ==
    LET cidr == ParseCIDR(subnet)
        parsedIP == ParseIP(ip)
    IN IF ~cidr.ok \/ ~parsedIP.ok
       THEN [err |-> TRUE, same |-> FALSE]
       ELSE [err |-> FALSE, same |-> Contains(cidr.ipnet, parsedIP.ip)]

AllInstances(m) ==
    UNION {{m.instancesData[n][i] : i \in DOMAIN m.instancesData[n]} : n \in DOMAIN m.instancesData}

ZeroRule == [DstIP |-> 0, SrcIP |-> 0, Proto |-> "", DstPort |-> ""]

\* A faulty getInstanceRule: the ports the instance exposes are not looked at.
getInstanceRuleAnyPort(m, serviceID, subnet, port, protocol, ip) ==
    LET match == {t \in AllInstances(m) :
                     /\ t.InstanceIdent.ServiceID = serviceID
                     /\ ~checkIPInSubnet(subnet, t.NetworkParameters.IP).same}
    IN IF match = {} THEN {[err |-> "errRuleNotFound", rule |-> ZeroRule]}
       ELSE {[err |-> "", rule |-> [DstIP |-> t.NetworkParameters.IP, SrcIP |-> ip,
                                    Proto |-> protocol, DstPort |-> port]] : t \in match}

\* The outcomes the ranging order allows: the rule of any matching instance,
\* the error of any instance whose check fails, errRuleNotFound when the
\* loops run to their end.
getInstanceRule(m, serviceID, subnet, port, protocol, ip) ==
    LET cands == {t \in AllInstances(m) : t.InstanceIdent.ServiceID = serviceID}
        broken == {t \in cands : checkIPInSubnet(subnet, t.NetworkParameters.IP).err}
        match == {t \in cands \ broken :
                     /\ ~checkIPInSubnet(subnet, t.NetworkParameters.IP).same
                     /\ ruleExists(t, port, protocol)}
    IN {[err |-> "", rule |-> [DstIP |-> t.NetworkParameters.IP, SrcIP |-> ip,
                               Proto |-> protocol, DstPort |-> port]] : t \in match}
       \cup (IF broken # {} THEN {[err |-> "invalid", rule |-> ZeroRule]} ELSE {})
       \cup (IF broken = {} /\ match = {}
             THEN {[err |-> "errRuleNotFound", rule |-> ZeroRule]} ELSE {})

RECURSIVE firewallFrom(_, _, _, _, _, _)
firewallFrom(m, subnet, ip, allowConnection, k, rules) ==
    IF k > Len(allowConnection) THEN {[err |-> "", rules |-> rules]}
    ELSE LET c == parseAllowConnection(allowConnection[k])
         IN IF c.err THEN {[err |-> "malformed", rules |-> <<>>]}
            ELSE UNION {
                    IF r.err = "" THEN
                        firewallFrom(m, subnet, ip, allowConnection, k + 1, Append(rules, r.rule))
                    ELSE IF r.err = "errRuleNotFound" THEN
                        firewallFrom(m, subnet, ip, allowConnection, k + 1, rules)
                    ELSE {[err |-> r.err, rules |-> <<>>]}
                    : r \in getInstanceRule(m, c.serviceID, subnet, c.port, c.protocol, ip)}

prepareFirewallRules(m, subnet, ip, allowConnection) ==
    firewallFrom(m, subnet, ip, allowConnection, 1, <<>>)

\* ------------------------------------------------------------- instances
GetIPSubnet(ipam, networkID) == prepareSubnet(ipam, networkID)

\* f.addInst: storage.AddNetworkInstanceInfo fails in this call.
createNetwork(m, instanceIdent, networkID, params, f) ==
    LET r == GetIPSubnet(m.ipamSubnet, networkID)
        m1 == [m EXCEPT !.ipamSubnet = r.ipam]
        networkParameters ==
            [NetworkID |-> networkID, Subnet |-> r.subnet, IP |-> IPString(r.ip),
             VlanID |-> 0, DNSServers |-> <<dnsIPAddress>>, FirewallRules |-> <<>>]
        parsed == IF Len(params.ExposePorts) > 0
                  THEN parseExposedPorts(params.ExposePorts)
                  ELSE [err |-> FALSE, rules |-> <<>>]
        instanceNetworkInfo ==
            [InstanceIdent |-> instanceIdent, NetworkParameters |-> networkParameters,
             Rules |-> parsed.rules]
        rollback(mm, ip) == deleteNetworkParametersFromCache(mm, networkID, instanceIdent, ip)
    IN IF r.err THEN
           [m |-> rollback(m, NilIP), err |-> "exhausted", params |-> ZeroNP]
       ELSE IF parsed.err THEN
           [m |-> rollback(m1, r.ip), err |-> "malformed", params |-> networkParameters]
       ELSE IF f.addInst THEN
           [m |-> rollback(Logged(m1, Call("AddNetworkInstanceInfo", networkID, "",
                                           instanceIdent, <<>>)), r.ip),
            err |-> "storage", params |-> networkParameters]
       ELSE
           [m |-> addNetworkParametersToCache(AddNetworkInstanceInfo(m1, instanceNetworkInfo),
                                              instanceNetworkInfo),
            err |-> "", params |-> networkParameters]

\* A faulty expandHosts: the names of instance 0 are left out.
expandHostsNoService(instanceIdent, networkID, hosts) ==
    IF instanceIdent.ServiceID # "" /\ instanceIdent.SubjectID # ""
    THEN LET i == ToString(instanceIdent.Instance)
             name == instanceIdent.SubjectID \o "." \o instanceIdent.ServiceID
         IN hosts \o <<i \o "." \o name, i \o "." \o name \o "." \o networkID>>
    ELSE hosts

expandHosts(instanceIdent, networkID, hosts) ==
    IF instanceIdent.ServiceID # "" /\ instanceIdent.SubjectID # ""
    THEN LET i == ToString(instanceIdent.Instance)
             name == instanceIdent.SubjectID \o "." \o instanceIdent.ServiceID
         IN hosts \o <<i \o "." \o name, i \o "." \o name \o "." \o networkID>>
                  \o (IF instanceIdent.Instance = 0
                      THEN <<name, name \o "." \o networkID>> ELSE <<>>)
    ELSE hosts

\* The set of results of one call, one per order in which the maps may be
\* ranged over: [m, err, params] and what the lookup of line 262 found
\* (found, currentNetworkID, current; moved: the branch of line 263 is
\* taken). f = [addInst, dns, rm] are the faults of
\* storage.AddNetworkInstanceInfo, dns.addHosts and the storage's removals.
PrepareInstanceNetworkParameters(m, instanceIdent, networkID, params, f) ==
    LET hosts == expandHosts(instanceIdent, networkID, params.Hosts)
        after(lk) ==
            LET moved == lk.found /\ networkID # lk.networkID
                m1 == IF moved
                      THEN removeInstanceNetworkParameters(
                               m, networkID, instanceIdent, CastIP(lk.params.IP), f.rm)
                      ELSE m
                cr == IF lk.found /\ ~moved
                      THEN [m |-> m1, err |-> "", params |-> lk.params]
                      ELSE createNetwork(m1, instanceIdent, networkID, params, f)
                dn == addHosts(cr.m, hosts, cr.params.IP, f.dns)
                out(mm, e, p) == [m |-> mm, err |-> e, params |-> p, moved |-> moved,
                                  found |-> lk.found, currentNetworkID |-> lk.networkID,
                                  current |-> lk.params]
            IN IF cr.err # "" THEN {out(cr.m, cr.err, cr.params)}
               ELSE IF dn.err THEN {out(dn.m, "dns", cr.params)}
               ELSE IF Len(params.AllowConnections) > 0 THEN
                   {IF fw.err # "" THEN out(dn.m, fw.err, cr.params)
                    ELSE out(dn.m, "", [cr.params EXCEPT !.FirewallRules = fw.rules])
                    : fw \in prepareFirewallRules(dn.m, cr.params.Subnet, cr.params.IP,
                                                  params.AllowConnections)}
               ELSE {out(dn.m, "", cr.params)}
    IN UNION {after(lk) : lk \in getNetworkParametersToCache(m, instanceIdent)}

\* The set of results of one call: m and what the lookup of line 188 found.
RemoveInstanceNetworkParameters(m, instanceIdent, f) ==
    {[m |-> IF ~lk.found THEN m
            ELSE removeInstanceNetworkParameters(m, lk.networkID, instanceIdent,
                                                 CastIP(lk.params.IP), f.rm),
      found |-> lk.found, currentNetworkID |-> lk.networkID, current |-> lk.params]
     : lk \in getNetworkParametersToCache(m, instanceIdent)}

GetInstances(m) ==
    UNION {DOMAIN m.instancesData[n] : n \in DOMAIN m.instancesData}

\* ------------------------------------------------------------- provider networks
Binding(networkParameters, nodeID) == [np |-> networkParameters, NodeID |-> nodeID]

RECURSIVE removeNetworkInfoTimes(_, _, _, _, _)
removeNetworkInfoTimes(m, networkID, nodeID, times, rmFails) ==
    IF times = 0 THEN m
    ELSE removeNetworkInfoTimes(RemoveNetworkInfo(m, networkID, nodeID, rmFails),
                                networkID, nodeID, times - 1, rmFails)

\* lines 513-518: every instance of the network is removed. The result does
\* not depend on the order in which the map is ranged over.
RECURSIVE removeInstancesOf(_, _, _, _)
removeInstancesOf(m, networkID, idents, rmFails) ==
    IF idents = {} THEN m
    ELSE LET instanceIdent == CHOOSE i \in idents : TRUE
             netInfo == m.instancesData[networkID][instanceIdent]
         IN removeInstancesOf(
                 removeInstanceNetworkParameters(m, networkID, instanceIdent,
                                                 CastIP(netInfo.NetworkParameters.IP), rmFails),
                 networkID, idents \ {instanceIdent}, rmFails)

\* A faulty removeNetworkInstances: the loop of lines 513-518 is left out.
removeNetworkInstancesSkipped(m, networkID, rmFails) == m

removeNetworkInstances(m, networkID, rmFails) ==
    removeInstancesOf(m, networkID, DOMAIN instancesOf(m, networkID), rmFails)

\* lines 460-521: the body of the loop over providerNetworks, for one key.
removeProviderNetwork(m, networkID, providers, nodeID, rmFails) ==
    LET networksInfo == m.providerNetworks[networkID]
        assigned(info) == info.NodeID # ""
        validNetworks == SelectSeq(networksInfo, assigned)
        m1 == removeNetworkInfoTimes(m, networkID, "",
                                     Len(networksInfo) - Len(validNetworks), rmFails)
        providerFound == \E i \in 1..Len(providers) : networkID = providers[i]
        otherNode(info) == info.NodeID # nodeID
        filteredNetworks == SelectSeq(validNetworks, otherNode)
        m2 == removeNetworkInfoTimes(m1, networkID, nodeID,
                                     Len(validNetworks) - Len(filteredNetworks), rmFails)
        m3 == removeNetworkInstances(m2, networkID, rmFails)
    IN IF providerFound /\ Len(validNetworks) > 0 THEN
           [m1 EXCEPT !.providerNetworks[networkID] = validNetworks]
       ELSE IF Len(filteredNetworks) > 0 THEN
           [m2 EXCEPT !.providerNetworks[networkID] = filteredNetworks]
       ELSE
           [m3 EXCEPT !.providerNetworks = MapDel(@, networkID),
                      !.ipamSubnet = releaseIPNetPool(@, networkID)]

\* One network's pass touches only that network's bindings, instances and
\* pool, so the order of the keys does not change the result.
RECURSIVE removeProviderNetworksIn(_, _, _, _, _)
removeProviderNetworksIn(m, keys, providers, nodeID, rmFails) ==
    IF keys = {} THEN m
    ELSE LET networkID == CHOOSE n \in keys : TRUE
         IN removeProviderNetworksIn(
                 removeProviderNetwork(m, networkID, providers, nodeID, rmFails),
                 keys \ {networkID}, providers, nodeID, rmFails)

removeProviderNetworks(m, providers, nodeID, rmFails) ==
    removeProviderNetworksIn(m, DOMAIN m.providerNetworks, providers, nodeID, rmFails)

\* networkParameter: the binding under construction; addFails: whether
\* storage.AddNetworkInfo fails.
setupNetworkParameters(m, providerID, networkParameter, addFails) ==
    LET store(m1, filled) ==
            IF addFails THEN
                [m |-> Logged(m1, Call("AddNetworkInfo", providerID, filled.NodeID,
                                       NoIdent, <<>>)),
                 err |-> "storage", binding |-> filled]
            ELSE [m |-> [AddNetworkInfo(m1, filled) EXCEPT !.providerNetworks =
                             MapPut(@, providerID,
                                    Append(IF providerID \in DOMAIN @
                                           THEN @[providerID] ELSE <<>>, filled))],
                  err |-> "", binding |-> filled]
        setup(r) ==
            IF r.err THEN [m |-> m, err |-> "exhausted", binding |-> networkParameter]
            ELSE store([m EXCEPT !.ipamSubnet = r.ipam],
                       [networkParameter EXCEPT !.np.Subnet = r.subnet,
                                                !.np.IP = IPString(r.ip)])
    IN setup(GetIPSubnet(m.ipamSubnet, providerID))

\* vlanID: the value GetVlanID returns (getVlanID: uniform over 1..vlanIDCapacity).
createProviderNetwork(m, providerID, nodeID, vlanID, addFails) ==
    LET networkParameter ==
            Binding([ZeroNP EXCEPT !.NetworkID = providerID, !.VlanID = vlanID], nodeID)
        done(r) == IF r.err # "" THEN [m |-> r.m, err |-> r.err, params |-> ZeroNP]
                   ELSE [m |-> r.m, err |-> "", params |-> r.binding.np]
    IN done(setupNetworkParameters(m, providerID, networkParameter, addFails))

\* A faulty updateProviderNetworkForNode: the existing binding is not copied.
updateProviderNetworkForNodeNoCopy(m, providerID, nodeID, existingNetwork, addFails) ==
    LET networkParameter == Binding([ZeroNP EXCEPT !.NetworkID = providerID], nodeID)
        done(r) == IF r.err # "" THEN [m |-> r.m, err |-> r.err, params |-> ZeroNP]
                   ELSE [m |-> r.m, err |-> "", params |-> r.binding.np]
    IN done(setupNetworkParameters(m, providerID, networkParameter, addFails))

updateProviderNetworkForNode(m, providerID, nodeID, existingNetwork, addFails) ==
    LET networkParameter == Binding(existingNetwork, nodeID)
        done(r) == IF r.err # "" THEN [m |-> r.m, err |-> r.err, params |-> ZeroNP]
                   ELSE [m |-> r.m, err |-> "", params |-> r.binding.np]
    IN done(setupNetworkParameters(m, providerID, networkParameter, addFails))

\* A faulty addProviderNetwork: a node that joins a tracked network gets a
\* network of its own making, with a VlanID picked anew.
addProviderNetworkFreshVlan(m, providerID, nodeID, vlanID, addFails) ==
    IF providerID \in DOMAIN m.providerNetworks THEN
        LET networks == m.providerNetworks[providerID]
            mine == {i \in 1..Len(networks) : networks[i].NodeID = nodeID}
        IN IF mine # {}
           THEN [m |-> m, err |-> "", params |-> networks[SetMin(mine)].np]
           ELSE createProviderNetwork(m, providerID, nodeID, vlanID, addFails)
    ELSE createProviderNetwork(m, providerID, nodeID, vlanID, addFails)

\* A faulty addProviderNetwork: the node's own binding is not looked for.
addProviderNetworkNoReuse(m, providerID, nodeID, vlanID, addFails) ==
    IF providerID \in DOMAIN m.providerNetworks
    THEN updateProviderNetworkForNode(m, providerID, nodeID,
                                      m.providerNetworks[providerID][1].np, addFails)
    ELSE createProviderNetwork(m, providerID, nodeID, vlanID, addFails)

\* lines 585-611: the body of the loop, for providers[k].
addProviderNetwork(m, providerID, nodeID, vlanID, addFails) ==
    IF providerID \in DOMAIN m.providerNetworks THEN
        LET networks == m.providerNetworks[providerID]
            mine == {i \in 1..Len(networks) : networks[i].NodeID = nodeID}
        IN IF mine # {}
           THEN [m |-> m, err |-> "", params |-> networks[SetMin(mine)].np]
           ELSE updateProviderNetworkForNode(m, providerID, nodeID, networks[1].np, addFails)
    ELSE createProviderNetwork(m, providerID, nodeID, vlanID, addFails)

RECURSIVE addProviderNetworksFrom(_, _, _, _, _, _, _)
addProviderNetworksFrom(m, providers, nodeID, vlan, addFailAt, k, networkParameters) ==
    IF k > Len(providers) THEN [m |-> m, err |-> "", list |-> networkParameters]
    ELSE LET next(r) ==
                 IF r.err # "" THEN [m |-> r.m, err |-> r.err, list |-> networkParameters]
                 ELSE addProviderNetworksFrom(r.m, providers, nodeID, vlan, addFailAt, k + 1,
                                              Append(networkParameters, r.params))
         IN next(addProviderNetwork(m, providers[k], nodeID, vlan[providers[k]],
                                    addFailAt = k))

\* vlan[n]: what GetVlanID(n) returns in this call; addFailAt: the position in
\* providers whose storage.AddNetworkInfo fails (0: none).
addProviderNetworks(m, providers, nodeID, vlan, addFailAt) ==
    addProviderNetworksFrom(m, providers, nodeID, vlan, addFailAt, 1, <<>>)

\* A faulty UpdateProviderNetwork: removeProviderNetworks is not called.
UpdateProviderNetworkNoRemove(m, providers, nodeID, vlan, f) ==
    LET publish(r) ==
            IF r.err # "" THEN [m |-> r.m, err |-> r.err, list |-> r.list]
            ELSE [m |-> Logged(r.m, Call("UpdateNetwork", "", nodeID, NoIdent, r.list)),
                  err |-> IF f.publish THEN "transport" ELSE "", list |-> r.list]
    IN publish(addProviderNetworks(m, providers, nodeID, vlan, f.addNet))

\* A faulty UpdateProviderNetwork: the list is published whether or not the
\* bindings could be made.
UpdateProviderNetworkPublishAlways(m, providers, nodeID, vlan, f) ==
    LET publish(r) ==
            [m |-> Logged(r.m, Call("UpdateNetwork", "", nodeID, NoIdent, r.list)),
             err |-> IF r.err # "" THEN r.err ELSE IF f.publish THEN "transport" ELSE "",
             list |-> r.list]
    IN publish(addProviderNetworks(removeProviderNetworks(m, providers, nodeID, f.rm),
                                   providers, nodeID, vlan, f.addNet))

\* f = [addNet, publish, rm]: the faults of storage.AddNetworkInfo,
\* nodeManager.UpdateNetwork and the storage's removals.
UpdateProviderNetwork(m, providers, nodeID, vlan, f) ==
    LET publish(r) ==
            IF r.err # "" THEN [m |-> r.m, err |-> r.err, list |-> r.list]
            ELSE [m |-> Logged(r.m, Call("UpdateNetwork", "", nodeID, NoIdent, r.list)),
                  err |-> IF f.publish THEN "transport" ELSE "", list |-> r.list]
    IN publish(addProviderNetworks(removeProviderNetworks(m, providers, nodeID, f.rm),
                                   providers, nodeID, vlan, f.addNet))

\* ------------------------------------------------------------- construction
\* What storage may hold when the manager starts: nothing, or the rows of an
\* earlier run: a binding of netX that names no node, with an instance in
\* netX or with a binding of netX for nodeB.
LegacyBinding(nodeID, host) ==
    Binding([ZeroNP EXCEPT !.NetworkID = "netX", !.Subnet = 1, !.IP = HostIP(1, host),
                           !.VlanID = 1], nodeID)

LegacyInstance ==
    [InstanceIdent |-> IdA,
     NetworkParameters |-> [ZeroNP EXCEPT !.NetworkID = "netX", !.Subnet = 1,
                                          !.IP = HostIP(1, 2)],
     Rules |-> <<[Protocol |-> "tcp", Port |-> "80"]>>]

PersistedStates ==
    {[networks |-> <<>>, instances |-> <<>>],
     [networks |-> <<LegacyBinding("", 1)>>, instances |-> <<LegacyInstance>>],
     [networks |-> <<LegacyBinding("", 1), LegacyBinding("nodeB", 2)>>, instances |-> <<>>]}

RECURSIVE loadNetworks(_, _, _)
loadNetworks(providerNetworks, networksInfo, k) ==
    IF k > Len(networksInfo) THEN providerNetworks
    ELSE LET networkInfo == networksInfo[k]
             key == networkInfo.np.NetworkID
         IN loadNetworks(
                 MapPut(providerNetworks, key,
                        Append(IF key \in DOMAIN providerNetworks
                               THEN providerNetworks[key] ELSE <<>>, networkInfo)),
                 networksInfo, k + 1)

RECURSIVE loadInstances(_, _, _)
loadInstances(m, networkInstancesInfos, k) ==
    IF k > Len(networkInstancesInfos) THEN m
    ELSE loadInstances(
             addNetworkParametersToCache(
                 m, [networkInstancesInfos[k] EXCEPT
                        !.NetworkParameters.DNSServers = <<dnsIPAddress>>]),
             networkInstancesInfos, k + 1)

New(persisted) ==
    loadInstances(
        [instancesData |-> EmptyMap,
         providerNetworks |-> loadNetworks(EmptyMap, persisted.networks, 1),
         ipamSubnet |-> removeAllocatedSubnets(Range(persisted.networks),
                                               Range(persisted.instances)),
         dns |-> EmptyMap,
         si |-> [i \in {x.InstanceIdent : x \in Range(persisted.instances)} |->
                    CHOOSE x \in Range(persisted.instances) : x.InstanceIdent = i],
         sn |-> Range(persisted.networks),
         log |-> <<>>],
        persisted.instances, 1)

\* ------------------------------------------------------------- state machine
\* calls counts the public calls made so far; MaxCalls bounds a behaviour.
\* last is the latest public call: its arguments, what it returned, the calls
\* it made to the external collaborators (log), for Prepare what its lookup of
\* the identity found (also for Remove), and for Update and Remove the
\* manager as the call found it (before).
\* mutex is the thread that holds the manager's lock ("none": free) and
\* thread[t] is where caller thread t is in its call, with the call's locals.
VARIABLES instancesData, providerNetworks, ipamSubnet, dnsHosts,
          storageInstances, storageNetworks, calls, last, mutex, thread,
          nodes, placed

vars == <<instancesData, providerNetworks, ipamSubnet, dnsHosts,
          storageInstances, storageNetworks, calls, last, mutex, thread,
          nodes, placed>>

\* The manager as the operators above take it, at the start of a public call.
Mgr ==
    [instancesData |-> instancesData, providerNetworks |-> providerNetworks,
     ipamSubnet |-> ipamSubnet, dns |-> dnsHosts, si |-> storageInstances,
     sn |-> storageNetworks, log |-> <<>>]

\* The manager's fields, dns.hosts and the storage's rows become those of m.
Stores(m) ==
    /\ instancesData' = m.instancesData
    /\ providerNetworks' = m.providerNetworks
    /\ ipamSubnet' = m.ipamSubnet
    /\ dnsHosts' = m.dns
    /\ storageInstances' = m.si
    /\ storageNetworks' = m.sn

\* One public call made by a single caller, from its start to its return.
Becomes(m) ==
    /\ Stores(m)
    /\ calls' = calls + 1
    /\ UNCHANGED <<mutex, thread, nodes, placed>>

\* The manager as a call finds it.
Before ==
    [providerNetworks |-> providerNetworks, instancesData |-> instancesData,
     ipamSubnet |-> ipamSubnet, dns |-> dnsHosts, si |-> storageInstances,
     sn |-> storageNetworks]

\* The faults of the external collaborators in one call: addInst
\* (storage.AddNetworkInstanceInfo), dns (dns.addHosts), rm (the storage's
\* removals), addNet (storage.AddNetworkInfo for the provider at that position),
\* publish (nodeManager.UpdateNetwork). In Spec the collaborators do not fail.
NoFaults == [addInst |-> FALSE, dns |-> FALSE, rm |-> FALSE, addNet |-> 0, publish |-> FALSE]

NoCall ==
    [op |-> "New", f |-> NoFaults,
     prev |-> [op |-> "New", id |-> NoIdent, net |-> "", err |-> ""], id |-> NoIdent, net |-> "", params |-> PExpose, providers |-> <<>>,
     node |-> "", err |-> "", np |-> ZeroNP, list |-> <<>>, found |-> FALSE,
     currentNetworkID |-> "", current |-> ZeroNP, instances |-> {}, log |-> <<>>,
     before |-> [providerNetworks |-> EmptyMap, instancesData |-> EmptyMap,
                 ipamSubnet |-> NewIpam, dns |-> EmptyMap, si |-> EmptyMap, sn |-> {}]]

PrepareFaults == {NoFaults}

Threads == {"t1", "t2"}

\* A caller thread that is in no call.
IdleThread ==
    [pc |-> "idle", op |-> "", id |-> NoIdent, net |-> "", params |-> PExpose,
     providers |-> <<>>, node |-> "", found |-> FALSE, currentNetworkID |-> "",
     np |-> ZeroNP, ip |-> NilIP, err |-> "", concurrent |-> FALSE]

UpdateFaults(providers) == {NoFaults}

\* No placement was made yet.
NoPlacement ==
    [op |-> "none", request |-> [runners |-> <<>>, labels |-> <<>>, resources |-> <<>>,
                                 devices |-> <<>>],
     before |-> <<>>, byRunners |-> <<>>, byLabels |-> <<>>, static |-> <<>>,
     byDevices |-> <<>>, err |-> "", node |-> ""]

\* The values GetVlanID may return for the providers of one call.
VlanChoices(providers) ==
    {[n \in Networks |-> IF n \in Range(providers) THEN v[n] ELSE 1] :
        v \in [Range(providers) -> 1..MaxVlan]}

Init ==
    \E persisted \in PersistedStates :
        LET m == New(persisted)
        IN /\ instancesData = m.instancesData
           /\ providerNetworks = m.providerNetworks
           /\ ipamSubnet = m.ipamSubnet
           /\ dnsHosts = m.dns
           /\ storageInstances = m.si
           /\ storageNetworks = m.sn
           /\ calls = 0
           /\ last = NoCall
           /\ mutex = "none"
           /\ thread = [t \in Threads |-> IdleThread]
           /\ nodes = <<>>
           /\ placed = NoPlacement

Prepare ==
    /\ calls < MaxCalls
    /\ \E instanceIdent \in Idents, networkID \in Networks, params \in Policies,
          f \in PrepareFaults :
          \E r \in PrepareInstanceNetworkParameters(Mgr, instanceIdent, networkID, params, f) :
              /\ Becomes(r.m)
              /\ last' = [NoCall EXCEPT !.op = "Prepare", !.id = instanceIdent,
                                        !.net = networkID, !.params = params,
                                        !.err = r.err, !.np = r.params, !.found = r.found,
                                        !.currentNetworkID = r.currentNetworkID,
                                        !.current = r.current, !.log = r.m.log]

Remove ==
    /\ calls < MaxCalls
    /\ \E instanceIdent \in Idents :
          \E r \in RemoveInstanceNetworkParameters(Mgr, instanceIdent, NoFaults) :
              /\ Becomes(r.m)
              /\ last' = [NoCall EXCEPT !.op = "Remove", !.id = instanceIdent,
                                        !.found = r.found,
                                        !.currentNetworkID = r.currentNetworkID,
                                        !.current = r.current, !.log = r.m.log,
                                        !.before = Before]

Get ==
    /\ calls < MaxCalls
    /\ Becomes(Mgr)
    /\ last' = [NoCall EXCEPT !.op = "GetInstances", !.instances = GetInstances(Mgr)]

Update ==
    /\ calls < MaxCalls
    /\ \E providers \in ProviderLists, nodeID \in Nodes :
          \E f \in UpdateFaults(providers), vlan \in VlanChoices(providers) :
              \E r \in {UpdateProviderNetwork(Mgr, providers, nodeID, vlan, f)} :
                 /\ Becomes(r.m)
                 /\ last' = [NoCall EXCEPT !.op = "Update", !.providers = providers,
                                           !.node = nodeID, !.err = r.err, !.list = r.list,
                                           !.log = r.m.log,
                                           !.before = Before]

Next == Prepare \/ Remove \/ Get \/ Update

Spec == Init /\ [][Next]_vars

\* ------------------------------------------------------------- failing collaborators
\* The same calls when the storage, the DNS registry and the node manager may
\* fail: each call draws the faults that happen in it. last.f keeps them, and
\* last.prev tells which call came before a Prepare.
MaxFaultCalls == 2

AllPrepareFaults ==
    {[NoFaults EXCEPT !.addInst = a, !.dns = d] : a \in BOOLEAN, d \in BOOLEAN}

AllUpdateFaults(providers) ==
    {[NoFaults EXCEPT !.addNet = k, !.publish = p] :
        k \in 0..Len(providers), p \in BOOLEAN}

FaultyPrepare ==
    /\ calls < MaxFaultCalls
    /\ \E instanceIdent \in Idents, networkID \in Networks, params \in Policies,
          f \in AllPrepareFaults :
          \E r \in PrepareInstanceNetworkParameters(Mgr, instanceIdent, networkID, params, f) :
              /\ Becomes(r.m)
              /\ last' = [NoCall EXCEPT !.op = "Prepare", !.id = instanceIdent,
                                        !.net = networkID, !.params = params,
                                        !.err = r.err, !.np = r.params, !.found = r.found,
                                        !.currentNetworkID = r.currentNetworkID,
                                        !.current = r.current, !.log = r.m.log,
                                        !.f = f, !.before = Before,
                                        !.prev = [op |-> last.op, id |-> last.id,
                                                  net |-> last.net, err |-> last.err]]

FaultyRemove ==
    /\ calls < MaxFaultCalls
    /\ \E instanceIdent \in Idents, rmFails \in BOOLEAN :
          \E r \in RemoveInstanceNetworkParameters(Mgr, instanceIdent,
                                                   [NoFaults EXCEPT !.rm = rmFails]) :
              /\ Becomes(r.m)
              /\ last' = [NoCall EXCEPT !.op = "Remove", !.id = instanceIdent,
                                        !.found = r.found,
                                        !.currentNetworkID = r.currentNetworkID,
                                        !.current = r.current, !.log = r.m.log,
                                        !.f = [NoFaults EXCEPT !.rm = rmFails],
                                        !.before = Before]

FaultyUpdate ==
    /\ calls < MaxFaultCalls
    /\ \E providers \in ProviderLists, nodeID \in Nodes :
          \E f \in AllUpdateFaults(providers), vlan \in VlanChoices(providers) :
              \E r \in {UpdateProviderNetwork(Mgr, providers, nodeID, vlan, f)} :
                 /\ Becomes(r.m)
                 /\ last' = [NoCall EXCEPT !.op = "Update", !.providers = providers,
                                           !.node = nodeID, !.err = r.err, !.list = r.list,
                                           !.log = r.m.log, !.f = f,
                                           !.before = Before]

NextFaults == FaultyPrepare \/ FaultyRemove \/ FaultyUpdate

SpecFaults == Init /\ [][NextFaults]_vars

\* ------------------------------------------------------------- caller threads
\* The calls of concurrent callers, a step at a time. manager.Lock() is
\* taken by RemoveInstanceNetworkParameters, GetInstances and
\* UpdateProviderNetwork on entry and released by their deferred Unlock();
\* PrepareInstanceNetworkParameters does not take it: of what it calls, only
\* addNetworkParametersToCache locks. A step is the code between two places
\* where another thread may run and see a difference: a read or a write of
\* the manager's maps, a call of the IPAM, the DNS table or the storage.
\* calls counts the calls begun.
MaxThreadCalls == 2

ThreadIdents == {IdA, IdB}

ThreadPolicies == {PExpose, PAllow}

Shared == <<instancesData, providerNetworks, ipamSubnet, dnsHosts,
            storageInstances, storageNetworks>>

\* Thread t goes on with frame fr; nothing is returned yet.
GoesOn(t, fr) ==
    /\ thread' = [thread EXCEPT ![t] = fr]
    /\ UNCHANGED <<last, nodes, placed>>

\* What a thread that has returned keeps of its call: of a
\* PrepareInstanceNetworkParameters, the arguments and what was returned.
Returned(fr) ==
    IF fr.op = "Prepare"
    THEN [IdleThread EXCEPT !.op = fr.op, !.id = fr.id, !.net = fr.net,
                            !.found = fr.found, !.np = fr.np, !.err = fr.err,
                            !.concurrent = fr.concurrent]
    ELSE IdleThread

\* Thread t returns from its call with frame fr.
Returns(t, fr) ==
    /\ thread' = [thread EXCEPT ![t] = Returned(fr)]
    /\ UNCHANGED <<nodes, placed>>
    /\ last' = [NoCall EXCEPT !.op = fr.op, !.id = fr.id, !.net = fr.net,
                              !.params = fr.params, !.providers = fr.providers,
                              !.node = fr.node, !.err = fr.err, !.np = fr.np,
                              !.found = fr.found,
                              !.currentNetworkID = fr.currentNetworkID]

\* A thread other than t is inside a PrepareInstanceNetworkParameters for
\* the identity.
InPrepareOf(t, instanceIdent) ==
    \E u \in Threads \ {t} :
        thread[u].pc # "idle" /\ thread[u].op = "Prepare" /\ thread[u].id = instanceIdent

TCallPrepare(t) ==
    /\ thread[t].pc = "idle" /\ calls < MaxThreadCalls
    /\ \E instanceIdent \in ThreadIdents, networkID \in Networks, params \in ThreadPolicies :
          GoesOn(t, [IdleThread EXCEPT !.pc = "lookup", !.op = "Prepare",
                                       !.id = instanceIdent, !.net = networkID,
                                       !.params = params,
                                       !.concurrent = InPrepareOf(t, instanceIdent)])
    /\ calls' = calls + 1
    /\ UNCHANGED <<Shared, mutex>>

TCallRemove(t) ==
    /\ thread[t].pc = "idle" /\ calls < MaxThreadCalls
    /\ \E instanceIdent \in ThreadIdents :
          GoesOn(t, [IdleThread EXCEPT !.pc = "lock", !.op = "Remove", !.id = instanceIdent])
    /\ calls' = calls + 1
    /\ UNCHANGED <<Shared, mutex>>

TCallGet(t) ==
    /\ thread[t].pc = "idle" /\ calls < MaxThreadCalls
    /\ GoesOn(t, [IdleThread EXCEPT !.pc = "lock", !.op = "GetInstances"])
    /\ calls' = calls + 1
    /\ UNCHANGED <<Shared, mutex>>

TCallUpdate(t) ==
    /\ thread[t].pc = "idle" /\ calls < MaxThreadCalls
    /\ \E providers \in ProviderLists, nodeID \in Nodes :
          GoesOn(t, [IdleThread EXCEPT !.pc = "lock", !.op = "Update",
                                       !.providers = providers, !.node = nodeID])
    /\ calls' = calls + 1
    /\ UNCHANGED <<Shared, mutex>>

\* manager.Lock() blocks while another thread holds the lock.
TLock(t) ==
    /\ thread[t].pc = "lock" /\ mutex = "none"
    /\ mutex' = t
    /\ GoesOn(t, [thread[t] EXCEPT !.pc = "locked"])
    /\ UNCHANGED <<Shared, calls>>

TRemove(t) ==
    /\ thread[t].pc = "locked" /\ thread[t].op = "Remove"
    /\ \E r \in RemoveInstanceNetworkParameters(Mgr, thread[t].id, NoFaults) :
          /\ Stores(r.m)
          /\ GoesOn(t, [thread[t] EXCEPT !.pc = "unlock", !.found = r.found,
                                         !.currentNetworkID = r.currentNetworkID,
                                         !.np = r.current])
    /\ UNCHANGED <<calls, mutex>>

TGet(t) ==
    /\ thread[t].pc = "locked" /\ thread[t].op = "GetInstances"
    /\ GoesOn(t, [thread[t] EXCEPT !.pc = "unlock"])
    /\ UNCHANGED <<Shared, calls, mutex>>

TUpdate(t) ==
    /\ thread[t].pc = "locked" /\ thread[t].op = "Update"
    /\ \E vlan \in VlanChoices(thread[t].providers) :
          \E r \in {UpdateProviderNetwork(Mgr, thread[t].providers, thread[t].node,
                                          vlan, NoFaults)} :
              /\ Stores(r.m)
              /\ GoesOn(t, [thread[t] EXCEPT !.pc = "unlock", !.err = r.err])
    /\ UNCHANGED <<calls, mutex>>

\* A faulty return: the lock is not released.
TReturnLocked(t) ==
    /\ thread[t].pc = "unlock" /\ mutex = t
    /\ Returns(t, thread[t])
    /\ UNCHANGED <<Shared, calls, mutex>>

\* The deferred manager.Unlock(), and the return.
TUnlock(t) ==
    /\ thread[t].pc = "unlock" /\ mutex = t
    /\ mutex' = "none"
    /\ Returns(t, thread[t])
    /\ UNCHANGED <<Shared, calls>>

\* line 262: the lookup of the identity in the cache.
TLookup(t) ==
    /\ thread[t].pc = "lookup"
    /\ \E lk \in getNetworkParametersToCache(Mgr, thread[t].id) :
          GoesOn(t, [thread[t] EXCEPT
                        !.pc = IF lk.found /\ thread[t].net # lk.networkID THEN "remove"
                               ELSE IF lk.found THEN "dns" ELSE "alloc",
                        !.found = lk.found, !.currentNetworkID = lk.networkID,
                        !.np = lk.params])
    /\ UNCHANGED <<Shared, calls, mutex>>

\* lines 263-270: the identity was found under another network.
TMove(t) ==
    /\ thread[t].pc = "remove"
    /\ Stores(removeInstanceNetworkParameters(Mgr, thread[t].net, thread[t].id,
                                              CastIP(thread[t].np.IP), FALSE))
    /\ GoesOn(t, [thread[t] EXCEPT !.pc = "alloc"])
    /\ UNCHANGED <<calls, mutex>>

\* createNetwork up to GetIPSubnet; on an error its deferred function runs.
TAlloc(t) ==
    /\ thread[t].pc = "alloc"
    /\ \E r \in {GetIPSubnet(ipamSubnet, thread[t].net)} :
          IF r.err
          THEN /\ Stores(deleteNetworkParametersFromCache(Mgr, thread[t].net,
                                                          thread[t].id, NilIP))
               /\ Returns(t, [thread[t] EXCEPT !.err = "exhausted", !.np = ZeroNP])
          ELSE /\ Stores([Mgr EXCEPT !.ipamSubnet = r.ipam])
               /\ GoesOn(t, [thread[t] EXCEPT
                     !.pc = "store", !.ip = r.ip,
                     !.np = [NetworkID |-> thread[t].net, Subnet |-> r.subnet,
                             IP |-> IPString(r.ip), VlanID |-> 0,
                             DNSServers |-> <<dnsIPAddress>>, FirewallRules |-> <<>>]])
    /\ UNCHANGED <<calls, mutex>>

\* createNetwork from the parsing of the exposed ports to
\* storage.AddNetworkInstanceInfo; on an error its deferred function runs.
TStore(t) ==
    /\ thread[t].pc = "store"
    /\ \E parsed \in {IF Len(thread[t].params.ExposePorts) > 0
                      THEN parseExposedPorts(thread[t].params.ExposePorts)
                      ELSE [err |-> FALSE, rules |-> <<>>]} :
          IF parsed.err
          THEN /\ Stores(deleteNetworkParametersFromCache(Mgr, thread[t].net,
                                                          thread[t].id, thread[t].ip))
               /\ Returns(t, [thread[t] EXCEPT !.err = "malformed"])
          ELSE /\ Stores(AddNetworkInstanceInfo(Mgr,
                            [InstanceIdent |-> thread[t].id,
                             NetworkParameters |-> thread[t].np, Rules |-> parsed.rules]))
               /\ GoesOn(t, [thread[t] EXCEPT !.pc = "cache"])
    /\ UNCHANGED <<calls, mutex>>

\* addNetworkParametersToCache: Lock(), the write of the map, Unlock(). The
\* rules are those parsed by TStore from the same exposed ports.
TCache(t) ==
    /\ thread[t].pc = "cache" /\ mutex = "none"
    /\ Stores(addNetworkParametersToCache(Mgr,
                 [InstanceIdent |-> thread[t].id, NetworkParameters |-> thread[t].np,
                  Rules |-> IF Len(thread[t].params.ExposePorts) > 0
                            THEN parseExposedPorts(thread[t].params.ExposePorts).rules
                            ELSE <<>>]))
    /\ GoesOn(t, [thread[t] EXCEPT !.pc = "dns"])
    /\ UNCHANGED <<calls, mutex>>

\* line 278: dns.addHosts.
TDns(t) ==
    /\ thread[t].pc = "dns"
    /\ \E dn \in {addHosts(Mgr, expandHosts(thread[t].id, thread[t].net,
                                            thread[t].params.Hosts),
                           thread[t].np.IP, FALSE)} :
          /\ Stores(dn.m)
          /\ IF dn.err THEN Returns(t, [thread[t] EXCEPT !.err = "dns"])
             ELSE IF Len(thread[t].params.AllowConnections) > 0
                  THEN GoesOn(t, [thread[t] EXCEPT !.pc = "rules"])
                  ELSE Returns(t, thread[t])
    /\ UNCHANGED <<calls, mutex>>

\* lines 282-291: prepareFirewallRules, and the return.
TRules(t) ==
    /\ thread[t].pc = "rules"
    /\ \E fw \in prepareFirewallRules(Mgr, thread[t].np.Subnet, thread[t].np.IP,
                                      thread[t].params.AllowConnections) :
          IF fw.err # "" THEN Returns(t, [thread[t] EXCEPT !.err = fw.err])
          ELSE Returns(t, [thread[t] EXCEPT !.np.FirewallRules = fw.rules])
    /\ UNCHANGED <<Shared, calls, mutex>>

ThreadsNext ==
    \E t \in Threads :
        \/ TCallPrepare(t) \/ TCallRemove(t) \/ TCallGet(t) \/ TCallUpdate(t)
        \/ TLock(t) \/ TRemove(t) \/ TGet(t) \/ TUpdate(t) \/ TUnlock(t)
        \/ TLookup(t) \/ TMove(t) \/ TAlloc(t) \/ TStore(t) \/ TCache(t)
        \/ TDns(t) \/ TRules(t)

SpecThreads == Init /\ [][ThreadsNext]_vars

\* A step of thread t inside a call it has begun, but the body of an
\* UpdateProviderNetwork.
TStep(t) ==
    \/ TLock(t) \/ TRemove(t) \/ TGet(t) \/ TUnlock(t)
    \/ TLookup(t) \/ TMove(t) \/ TAlloc(t) \/ TStore(t) \/ TCache(t)
    \/ TDns(t) \/ TRules(t)

\* Thread t holds the lock and is about to run the body of an
\* UpdateProviderNetwork: the states in which TUpdate(t) is enabled, since
\* its guard is this and its body is defined for every manager and list.
InUpdate(t) == thread[t].pc = "locked" /\ thread[t].op = "Update"

\* SpecThreadsFair: the threads under the Go scheduler. A goroutine that can
\* run is run, the calls of the storage, the IPAM, the DNS table and the node
\* manager return, and sync.RWMutex hands a free lock to a goroutine that
\* waits for it: a thread whose next step stays possible takes it. Nothing
\* makes a caller begin a call. The second conjunct is WF_vars(TUpdate(t))
\* written out, with InUpdate(t) for ENABLED <<TUpdate(t)>>_vars.
SpecThreadsFair ==
    /\ SpecThreads
    /\ \A t \in Threads :
          /\ WF_vars(TStep(t))
          /\ []<>(~InUpdate(t)) \/ []<><<TUpdate(t)>>_vars

\* ------------------------------------------------------------- node handlers
\* A node handler is [nodeID, priority, runners, availableLabels,
\* availableResources, availableDevices]; a device is [name, sharedCount,
\* allocatedCount]. A list of handlers ([]*nodeHandler) is a sequence of
\* them: a handler is told from the others by its nodeID.
defaultRunners == <<"crun", "runc">>

initNodeConfig(nodeID, runners, nodeConfig) ==
    [nodeID |-> nodeID, runners |-> runners,
     priority |-> nodeConfig.Priority,
     availableLabels |-> nodeConfig.Labels,
     availableResources |-> [i \in 1..Len(nodeConfig.Resources) |-> nodeConfig.Resources[i].Name],
     availableDevices |-> [i \in 1..Len(nodeConfig.Devices) |->
                              [name |-> nodeConfig.Devices[i].Name,
                               sharedCount |-> nodeConfig.Devices[i].SharedCount,
                               allocatedCount |-> 0]]]

\* A faulty allocateDevice: a share is handed out though none is left.
allocateDeviceUnchecked(availableDevices, name) ==
    LET shareable == {i \in 1..Len(availableDevices) :
                         /\ availableDevices[i].name = name
                         /\ availableDevices[i].sharedCount # 0}
    IN IF shareable = {} THEN [devices |-> availableDevices, err |-> TRUE]
       ELSE [devices |-> [availableDevices EXCEPT ![SetMin(shareable)].allocatedCount = @ + 1],
             err |-> FALSE]

\* The body of serviceDeviceLoop for one requested device: the first device
\* of that name whose sharedCount is not 0 is the one allocated from.
allocateDevice(availableDevices, name) ==
    LET shareable == {i \in 1..Len(availableDevices) :
                         /\ availableDevices[i].name = name
                         /\ availableDevices[i].sharedCount # 0}
    IN IF shareable = {} THEN [devices |-> availableDevices, err |-> TRUE]
       ELSE LET i == SetMin(shareable)
            IN IF availableDevices[i].allocatedCount = availableDevices[i].sharedCount
               THEN [devices |-> availableDevices, err |-> TRUE]
               ELSE [devices |-> [availableDevices EXCEPT ![i].allocatedCount = @ + 1],
                     err |-> FALSE]

RECURSIVE allocateDevicesFrom(_, _, _)
allocateDevicesFrom(availableDevices, serviceDevices, k) ==
    IF k > Len(serviceDevices) THEN [devices |-> availableDevices, err |-> ""]
    ELSE LET next(r) ==
                 IF r.err THEN [devices |-> r.devices, err |-> "can't allocate device"]
                 ELSE allocateDevicesFrom(r.devices, serviceDevices, k + 1)
         IN next(allocateDevice(availableDevices, serviceDevices[k]))

\* The handler after the call, and the error.
allocateDevices(node, serviceDevices) ==
    LET done(r) == [node |-> [node EXCEPT !.availableDevices = r.devices], err |-> r.err]
    IN done(allocateDevicesFrom(node.availableDevices, serviceDevices, 1))

\* A faulty nodeHasDesiredDevices: the shares taken are not looked at.
nodeHasDesiredDevicesByName(node, desiredDevices) ==
    \A k \in 1..Len(desiredDevices) :
        \E i \in 1..Len(node.availableDevices) :
            desiredDevices[k] = node.availableDevices[i].name

nodeHasDesiredDevices(node, desiredDevices) ==
    \A k \in 1..Len(desiredDevices) :
        \E i \in 1..Len(node.availableDevices) :
            /\ desiredDevices[k] = node.availableDevices[i].name
            /\ \/ node.availableDevices[i].sharedCount = 0
               \/ node.availableDevices[i].allocatedCount # node.availableDevices[i].sharedCount

getNodesByDevices(availableNodes, desiredDevices) ==
    IF Len(desiredDevices) = 0 THEN [nodes |-> availableNodes, err |-> ""]
    ELSE LET has(node) == nodeHasDesiredDevices(node, desiredDevices)
             done(found) == [nodes |-> found,
                             err |-> IF Len(found) = 0 THEN "devices" ELSE ""]
         IN done(SelectSeq(availableNodes, has))

getNodesByResources(handlers, desiredResources) ==
    IF Len(desiredResources) = 0 THEN handlers
    ELSE LET has(node) ==
                 /\ Len(node.availableResources) # 0
                 /\ \A k \in 1..Len(desiredResources) :
                        desiredResources[k] \in Range(node.availableResources)
         IN SelectSeq(handlers, has)

\* A faulty getNodesByLabels: a node with no label matches any request.
getNodesByLabelsOrNone(handlers, desiredLabels) ==
    IF Len(desiredLabels) = 0 THEN handlers
    ELSE LET has(node) ==
                 \/ Len(node.availableLabels) = 0
                 \/ \A k \in 1..Len(desiredLabels) :
                        desiredLabels[k] \in Range(node.availableLabels)
         IN SelectSeq(handlers, has)

getNodesByLabels(handlers, desiredLabels) ==
    IF Len(desiredLabels) = 0 THEN handlers
    ELSE LET has(node) ==
                 /\ Len(node.availableLabels) # 0
                 /\ \A k \in 1..Len(desiredLabels) :
                        desiredLabels[k] \in Range(node.availableLabels)
         IN SelectSeq(handlers, has)

\* The handlers that offer runner, in the order of allNodes.
nodesOfRunner(allNodes, runner) ==
    LET runs(node) ==
            \/ Len(node.runners) = 0 /\ runner \in Range(defaultRunners)
            \/ runner \in Range(node.runners)
    IN SelectSeq(allNodes, runs)

RECURSIVE nodesOfRunnersFrom(_, _, _)
nodesOfRunnersFrom(allNodes, runners, k) ==
    IF k > Len(runners) THEN <<>>
    ELSE nodesOfRunner(allNodes, runners[k]) \o nodesOfRunnersFrom(allNodes, runners, k + 1)

\* The outer loop is over the runners: a handler is appended once for each
\* requested runner it offers.
getNodeByRunners(allNodes, runners) ==
    nodesOfRunnersFrom(allNodes, IF Len(runners) = 0 THEN defaultRunners ELSE runners, 1)

getNodesByStaticResources(allNodes, request) ==
    LET byResources(found) ==
            [nodes |-> found, err |-> IF Len(found) = 0 THEN "resources" ELSE ""]
        byLabels(found) ==
            IF Len(found) = 0 THEN [nodes |-> found, err |-> "labels"]
            ELSE byResources(getNodesByResources(found, request.resources))
        byRunners(found) ==
            IF Len(found) = 0 THEN [nodes |-> found, err |-> "runners"]
            ELSE byLabels(getNodesByLabels(found, request.labels))
    IN byRunners(getNodeByRunners(allNodes, request.runners))

RECURSIVE mostPriorityFrom(_, _, _)
mostPriorityFrom(handlers, i, maxNodePriorityIndex) ==
    IF i > Len(handlers) THEN maxNodePriorityIndex
    ELSE mostPriorityFrom(handlers, i + 1,
                          IF handlers[maxNodePriorityIndex].priority < handlers[i].priority
                          THEN i ELSE maxNodePriorityIndex)

RECURSIVE mostPriorityFromLast(_, _, _)
mostPriorityFromLast(handlers, i, maxNodePriorityIndex) ==
    IF i > Len(handlers) THEN maxNodePriorityIndex
    ELSE mostPriorityFromLast(handlers, i + 1,
                              IF handlers[maxNodePriorityIndex].priority <= handlers[i].priority
                              THEN i ELSE maxNodePriorityIndex)

\* A faulty getMostPriorityNode: of the nodes of the highest priority the
\* last is returned.
getMostPriorityNodeLast(handlers) ==
    IF Len(handlers) = 1 THEN 1 ELSE mostPriorityFromLast(handlers, 2, 1)

\* The index in handlers (from 1) of the handler returned.
getMostPriorityNode(handlers) ==
    IF Len(handlers) = 1 THEN 1 ELSE mostPriorityFrom(handlers, 2, 1)

\* ------------------------------------------------------------- placement
\* nodes are the handlers of the cluster's nodes, in the order the launcher
\* keeps them; placed is the latest placement or allocation, with the
\* handlers it found (before) and what each stage returned (byRunners,
\* byLabels, static: after the resources filter, byDevices).
MaxShared == 2
MaxPlacements == 3

RunnerLists == {<<>>, <<"runx">>, <<"crun", "runx">>}

LabelLists == {<<>>, <<"l1">>, <<"l1", "l2">>}

\* The labels a node's configuration may list.
LabelConfigs == {<<>>, <<"l1", "l2">>}

ResourceLists == {<<>>, <<"r1">>}

\* The devices a node's configuration may list.
DeviceConfigs ==
    {<<>>} \cup {<<[Name |-> "gpu", SharedCount |-> c]>> : c \in {0, MaxShared}}
           \cup {<<[Name |-> "cam", SharedCount |-> 1], [Name |-> "gpu", SharedCount |-> 1]>>}

\* The devices a service may ask for.
DeviceRequests == {<<>>, <<"gpu">>, <<"gpu", "gpu">>, <<"cam", "gpu">>}

\* What a service and an instance may ask for.
AllRequests ==
    [runners : RunnerLists, labels : LabelLists, resources : ResourceLists,
     devices : DeviceRequests]

\* The requests that are placed: those that ask for no device, and those
\* that ask for devices and for no runner, no label and no resource.
Requests ==
    {request \in AllRequests :
        \/ request.devices = <<>>
        \/ request.runners = <<>> /\ request.labels = <<>> /\ request.resources = <<>>}

NodeConfigs(priorities, labelLists, resourceLists) ==
    {[Priority |-> pr, Labels |-> l,
      Resources |-> [i \in 1..Len(r) |-> [Name |-> r[i]]], Devices |-> d] :
        pr \in priorities, l \in labelLists, r \in resourceLists, d \in DeviceConfigs}

\* The cluster: node1 with any configuration, node2 with a label and a
\* resource, of lower, equal or higher priority. The manager is as made from
\* an empty storage and is left alone.
PlacementInit ==
    /\ \E m \in {New([networks |-> <<>>, instances |-> <<>>])} :
          /\ instancesData = m.instancesData
          /\ providerNetworks = m.providerNetworks
          /\ ipamSubnet = m.ipamSubnet
          /\ dnsHosts = m.dns
          /\ storageInstances = m.si
          /\ storageNetworks = m.sn
    /\ calls = 0
    /\ last = NoCall
    /\ mutex = "none"
    /\ thread = [t \in Threads |-> IdleThread]
    /\ \E r1 \in RunnerLists \ {<<"crun", "runx">>}, r2 \in {<<>>, <<"crun", "runx">>},
          c1 \in NodeConfigs({5}, LabelConfigs, ResourceLists),
          c2 \in NodeConfigs({1, 5, 10}, {<<"l1">>}, {<<"r1">>}) :
          nodes = <<initNodeConfig("node1", r1, c1), initNodeConfig("node2", r2, c2)>>
    /\ placed = NoPlacement

Manager == <<instancesData, providerNetworks, ipamSubnet, dnsHosts,
             storageInstances, storageNetworks, last, mutex, thread>>

\* handlers with the handler of node.nodeID replaced by node.
WithNode(handlers, node) ==
    [i \in 1..Len(handlers) |->
        IF handlers[i].nodeID = node.nodeID THEN node ELSE handlers[i]]

\* What the runners filter returns, and the labels filter after it.
Stages(handlers, request) ==
    LET labelled(found) ==
            [byRunners |-> found,
             byLabels |-> IF Len(found) = 0 THEN <<>>
                          ELSE getNodesByLabels(found, request.labels)]
    IN labelled(getNodeByRunners(handlers, request.runners))

\* The placement of one instance: the filters in their order, the choice by
\* priority and the allocation of the service's devices on the chosen node.
Place ==
    /\ calls < MaxPlacements
    /\ calls' = calls + 1
    /\ UNCHANGED Manager
    /\ \E request \in Requests :
          \E s \in {getNodesByStaticResources(nodes, request)},
             st \in {Stages(nodes, request)} :
             LET found == [NoPlacement EXCEPT !.op = "place", !.request = request,
                                              !.before = nodes,
                                              !.byRunners = st.byRunners,
                                              !.byLabels = st.byLabels,
                                              !.static = s.nodes]
             IN IF s.err # ""
                THEN /\ UNCHANGED nodes
                     /\ placed' = [found EXCEPT !.err = s.err]
                ELSE \E d \in {getNodesByDevices(s.nodes, request.devices)} :
                        IF d.err # ""
                        THEN /\ UNCHANGED nodes
                             /\ placed' = [found EXCEPT !.byDevices = d.nodes,
                                                        !.err = d.err]
                        ELSE \E a \in {allocateDevices(
                                           d.nodes[getMostPriorityNode(d.nodes)],
                                           request.devices)} :
                                /\ nodes' = WithNode(nodes, a.node)
                                /\ placed' = [found EXCEPT !.byDevices = d.nodes,
                                                           !.err = a.err,
                                                           !.node = a.node.nodeID]

\* allocateDevices called for a node with any list of devices.
Allocate ==
    /\ calls < MaxPlacements
    /\ calls' = calls + 1
    /\ UNCHANGED Manager
    /\ \E i \in 1..Len(nodes), serviceDevices \in DeviceRequests \ {<<>>} :
          \E a \in {allocateDevices(nodes[i], serviceDevices)} :
             /\ nodes' = WithNode(nodes, a.node)
             /\ placed' = [NoPlacement EXCEPT !.op = "allocate",
                                              !.request.devices = serviceDevices,
                                              !.before = nodes, !.err = a.err,
                                              !.node = a.node.nodeID]

PlacementNext == Place \/ Allocate

SpecPlacement == PlacementInit /\ [][PlacementNext]_vars

\* ------------------------------------------------------------ run requests
\* SpecRunRequest: the run requests of two node handlers, a local and a
\* remote one, as instances are scheduled on them.
MaxRunRequests == 3

emptyRunRequest == [Services |-> <<>>, Layers |-> <<>>, Instances |-> <<>>]

\* A handler as newNodeHandler leaves it, with an empty run request.
newNodeHandler(nodeID, isLocalNode) ==
    [nodeID |-> nodeID, isLocalNode |-> isLocalNode, currentRunRequest |-> emptyRunRequest]

\* The descriptor sent to the node: for a remote node the URL is the remote one.
descriptorFor(isLocalNode, info, remoteURL) ==
    IF ~isLocalNode THEN [info EXCEPT !.URL = remoteURL] ELSE info

\* layerLoopLabel: the layers of the call from the k-th on, each appended
\* unless a deeply equal one is in the list.
RECURSIVE addLayersFrom(_, _, _, _)
addLayersFrom(isLocalNode, Layers, layers, k) ==
    IF k > Len(layers) THEN Layers
    ELSE LET newLayer == descriptorFor(isLocalNode, layers[k].LayerInfo, layers[k].RemoteURL)
         IN addLayersFrom(isLocalNode,
                          IF \E i \in 1..Len(Layers) : Layers[i] = newLayer
                          THEN Layers ELSE Append(Layers, newLayer),
                          layers, k + 1)

\* A faulty addRunRequest: the service is compared before its URL is rewritten.
addRunRequestCompareFirst(node, instance, service, layers) ==
    LET request == node.currentRunRequest
        serviceInfo == descriptorFor(node.isLocalNode, service.ServiceInfo, service.RemoteURL)
        isNewService == \A i \in 1..Len(request.Services) :
                            request.Services[i] # service.ServiceInfo
    IN [node EXCEPT !.currentRunRequest =
            [Instances |-> Append(request.Instances, instance),
             Services |-> IF isNewService THEN Append(request.Services, serviceInfo)
                          ELSE request.Services,
             Layers |-> addLayersFrom(node.isLocalNode, request.Layers, layers, 1)]]

\* The handler after addRunRequest.
addRunRequest(node, instance, service, layers) ==
    LET request == node.currentRunRequest
        serviceInfo == descriptorFor(node.isLocalNode, service.ServiceInfo, service.RemoteURL)
        isNewService == \A i \in 1..Len(request.Services) :
                            request.Services[i] # serviceInfo
    IN [node EXCEPT !.currentRunRequest =
            [Instances |-> Append(request.Instances, instance),
             Services |-> IF isNewService THEN Append(request.Services, serviceInfo)
                          ELSE request.Services,
             Layers |-> addLayersFrom(node.isLocalNode, request.Layers, layers, 1)]]

URLs == {"u1", "u2"}

RemoteURLs == {"u1", "r1"}

ServiceInfos ==
    [ServiceInfo : [ServiceID : {"s1"}, URL : URLs], RemoteURL : RemoteURLs]

LayerInfos ==
    [LayerInfo : [Digest : {"d1"}, URL : URLs], RemoteURL : {"r1"}]

LayerLists ==
    {<<>>} \cup {<<l>> : l \in LayerInfos} \cup {<<l1, l2>> : l1 \in LayerInfos, l2 \in LayerInfos}

InstanceInfos == {IdA, IdB}

NoSchedule ==
    [op |-> "none", node |-> "", instance |-> NoIdent,
     service |-> [ServiceInfo |-> [ServiceID |-> "", URL |-> ""], RemoteURL |-> ""],
     layers |-> <<>>, before |-> <<>>]

RunRequestInit ==
    /\ \E m \in {New([networks |-> <<>>, instances |-> <<>>])} :
          /\ instancesData = m.instancesData
          /\ providerNetworks = m.providerNetworks
          /\ ipamSubnet = m.ipamSubnet
          /\ dnsHosts = m.dns
          /\ storageInstances = m.si
          /\ storageNetworks = m.sn
    /\ calls = 0
    /\ last = NoCall
    /\ mutex = "none"
    /\ thread = [t \in Threads |-> IdleThread]
    /\ nodes = <<newNodeHandler("node1", TRUE), newNodeHandler("node2", FALSE)>>
    /\ placed = NoSchedule

\* An instance with its service and layers is scheduled on a node.
AddRunRequest ==
    /\ calls < MaxRunRequests
    /\ calls' = calls + 1
    /\ UNCHANGED Manager
    /\ \E i \in 1..Len(nodes), instance \in InstanceInfos, service \in ServiceInfos,
          layers \in LayerLists :
          /\ nodes' = WithNode(nodes, addRunRequest(nodes[i], instance, service, layers))
          /\ placed' = [op |-> "addRunRequest", node |-> nodes[i].nodeID,
                        instance |-> instance, service |-> service, layers |-> layers,
                        before |-> nodes]

RunRequestNext == AddRunRequest

SpecRunRequest == RunRequestInit /\ [][RunRequestNext]_vars

\* ------------------------------------------------------------- properties
TrackedUnder(data, instanceIdent) ==
    {n \in DOMAIN data : instanceIdent \in DOMAIN data[n]}

IPOf(data, n, i) == data[n][i].NetworkParameters.IP

PreparedOK == last.op = "Prepare" /\ last.err = ""

UpdatedOK == last.op = "Update" /\ last.err = ""

\* C1: no two distinct live instance identities hold the same IP, whatever
\* calls were made; in particular the IPs of one network's instances differ.
C1_UniqueInstanceIPs ==
    \A n1 \in DOMAIN instancesData, n2 \in DOMAIN instancesData :
        \A i1 \in DOMAIN instancesData[n1], i2 \in DOMAIN instancesData[n2] :
            i1 # i2 => IPOf(instancesData, n1, i1) # IPOf(instancesData, n2, i2)

\* Two identities live in one network whose pool has no free host, and a
\* third in the other network.
C1_Witness ==
    \E n \in DOMAIN instancesData, k \in DOMAIN instancesData :
        /\ n # k
        /\ Cardinality(DOMAIN instancesData[n]) >= 2
        /\ Cardinality(ipamSubnet[n].used) = MaxHosts
        /\ DOMAIN instancesData[k] # {}

\* C2: every identity is tracked in instancesData under at most one NetworkID.
C2_OneNetworkPerIdentity ==
    \A i \in Idents : Cardinality(TrackedUnder(instancesData, i)) <= 1

\* C3: a successful Prepare of an identity that held an IP in another network
\* returns the requested NetworkID and has released the old IP in the pool of
\* the network that held it.
C3_MoveReleasesOldIP ==
    (PreparedOK /\ last.found /\ last.currentNetworkID # last.net) =>
        /\ last.np.NetworkID = last.net
        /\ last.current.IP \notin ipamSubnet[last.currentNetworkID].used

\* C4: any two bindings of one provider network have the same VlanID.
C4_VlanStable ==
    \A n \in DOMAIN providerNetworks :
        \A i \in 1..Len(providerNetworks[n]), j \in 1..Len(providerNetworks[n]) :
            providerNetworks[n][i].np.VlanID = providerNetworks[n][j].np.VlanID

\* A call has bound a second node to a network that another node is bound to.
C4_Witness ==
    /\ UpdatedOK
    /\ \E n \in DOMAIN providerNetworks :
          /\ Len(providerNetworks[n]) = 2
          /\ providerNetworks[n][1].NodeID # providerNetworks[n][2].NodeID
          /\ providerNetworks[n][2].NodeID = last.node
          /\ n \in DOMAIN last.before.providerNetworks
          /\ Len(last.before.providerNetworks[n]) = 1

\* C5: a second UpdateProviderNetwork with the arguments of a successful
\* first one succeeds and leaves the bindings, the instances, the IPAM
\* allocations and the persisted rows as the first call left them, whatever
\* GetVlanID would return.
C5_UpdateIdempotent ==
    UpdatedOK =>
        \A vlan \in VlanChoices(last.providers) :
            \A r \in {UpdateProviderNetwork(Mgr, last.providers, last.node, vlan, NoFaults)} :
               /\ r.err = ""
               /\ r.list = last.list
               /\ r.m.providerNetworks = providerNetworks
               /\ r.m.instancesData = instancesData
               /\ r.m.ipamSubnet = ipamSubnet
               /\ r.m.sn = storageNetworks
               /\ r.m.si = storageInstances

\* The first call bound the node to two networks and dropped or added a binding.
C5_Witness ==
    /\ UpdatedOK
    /\ Len(last.providers) = 2
    /\ last.providers[1] # last.providers[2]
    /\ last.before.providerNetworks # providerNetworks
    /\ last.before.ipamSubnet # ipamSubnet

\* The bindings of network n that the call found.
BindingsBefore(n) ==
    IF n \in DOMAIN last.before.providerNetworks
    THEN Range(last.before.providerNetworks[n]) ELSE {}

InstancesBefore(n) ==
    IF n \in DOMAIN last.before.instancesData THEN last.before.instancesData[n] ELSE EmptyMap

InstancesNow(n) ==
    IF n \in DOMAIN instancesData THEN instancesData[n] ELSE EmptyMap

\* Step 1 of the call leaves the tracked network n with no binding: each is
\* stale, or is the node's and n is not asked for.
LeftEmpty(n) ==
    /\ last.op = "Update"
    /\ BindingsBefore(n) # {}
    /\ \A b \in BindingsBefore(n) :
          b.NodeID = "" \/ (b.NodeID = last.node /\ n \notin Range(last.providers))

\* The tracked network n has a binding of another node.
KeptByOther(n) ==
    /\ last.op = "Update"
    /\ \E b \in BindingsBefore(n) : b.NodeID # "" /\ b.NodeID # last.node

InstancesTornDown(n) ==
    /\ DOMAIN InstancesNow(n) = {}
    /\ \A i \in DOMAIN InstancesBefore(n) :
          \E k \in 1..Len(last.log) :
              last.log[k].call = "RemoveNetworkInstanceInfo" /\ last.log[k].id = i

PoolReleased(n) == ipamSubnet[n] = [subnet |-> 0, used |-> {}]

KeepsInstancesAndPool(n) ==
    /\ InstancesNow(n) = InstancesBefore(n)
    /\ ipamSubnet[n].subnet = last.before.ipamSubnet[n].subnet
    /\ last.before.ipamSubnet[n].used \subseteq ipamSubnet[n].used

\* C6 as stated: a network the call leaves with no binding is absent after
\* the call, its instances are gone, RemoveNetworkInstanceInfo was called for
\* each and its pool is released; a network another node is bound to keeps its
\* instances and its pool.
C6_TornDownAndAbsent ==
    \A n \in Networks :
        /\ LeftEmpty(n) =>
              /\ n \notin DOMAIN providerNetworks
              /\ InstancesTornDown(n)
              /\ PoolReleased(n)
        /\ KeptByOther(n) => KeepsInstancesAndPool(n)

\* C6 amended: the instances of a network that step 1 leaves with no binding
\* are gone and RemoveNetworkInstanceInfo was called for each; the network is
\* absent and its pool released, unless providers names it: then a successful
\* call has made it anew, with the node's binding alone, a binding the call
\* did not find, and a pool that holds that binding's IP alone. A network
\* another node is bound to keeps its instances and its pool.
C6_TornDownThenMadeAnew ==
    \A n \in Networks :
        /\ LeftEmpty(n) =>
              /\ InstancesTornDown(n)
              /\ n \notin Range(last.providers) =>
                    /\ n \notin DOMAIN providerNetworks
                    /\ PoolReleased(n)
              /\ (n \in Range(last.providers) /\ last.err = "") =>
                    /\ n \in DOMAIN providerNetworks
                    /\ Len(providerNetworks[n]) = 1
                    /\ providerNetworks[n][1].NodeID = last.node
                    /\ providerNetworks[n][1] \notin BindingsBefore(n)
                    /\ ipamSubnet[n].used = {providerNetworks[n][1].np.IP}
        /\ KeptByOther(n) => KeepsInstancesAndPool(n)

\* A network with an instance was left with no binding and is absent, while
\* the call went on to bind the node to another network.
C6_Witness ==
    \E n \in Networks :
        /\ LeftEmpty(n)
        /\ DOMAIN InstancesBefore(n) # {}
        /\ n \notin DOMAIN providerNetworks
        /\ last.err = ""
        /\ last.providers # <<>>

BindingsNow(n) ==
    IF n \in DOMAIN providerNetworks THEN providerNetworks[n] ELSE <<>>

BindingsOf(bindings, nodeID) ==
    LET of(b) == b.NodeID = nodeID IN SelectSeq(bindings, of)

BindingsFound(n) ==
    IF n \in DOMAIN last.before.providerNetworks
    THEN last.before.providerNetworks[n] ELSE <<>>

\* C7: after a successful UpdateProviderNetwork(providers, nodeID) the node
\* has exactly one binding in every network of providers and none in any
\* other tracked network, no binding names the empty node, a binding the node
\* already had in a network of providers is the one it has now, and the
\* bindings of the other nodes are as the call found them.
C7_UpdateFrameEffect ==
    UpdatedOK =>
        /\ \A n \in Range(last.providers) :
              Len(BindingsOf(BindingsNow(n), last.node)) = 1
        /\ \A n \in (DOMAIN providerNetworks) \ Range(last.providers) :
              BindingsOf(providerNetworks[n], last.node) = <<>>
        /\ \A n \in DOMAIN providerNetworks : BindingsOf(providerNetworks[n], "") = <<>>
        /\ \A n \in Range(last.providers) :
              BindingsOf(BindingsFound(n), last.node) # <<>> =>
                  BindingsOf(BindingsNow(n), last.node)
                      = <<BindingsOf(BindingsFound(n), last.node)[1]>>
        /\ \A n \in Networks, other \in Nodes \ {last.node} :
              BindingsOf(BindingsNow(n), other) = BindingsOf(BindingsFound(n), other)

\* The call found a stale binding and a binding of the node in one network of
\* providers, and made a binding in another.
C7_Witness ==
    /\ UpdatedOK
    /\ \E n \in Range(last.providers), k \in Range(last.providers) :
          /\ BindingsOf(BindingsFound(n), "") # <<>>
          /\ BindingsOf(BindingsFound(n), last.node) # <<>>
          /\ BindingsFound(k) = <<>>
          /\ Len(BindingsNow(k)) = 1

\* The successful call binds the node to network n, which it was not bound to
\* and which another node is bound to.
Joins(n) ==
    /\ UpdatedOK
    /\ n \in Range(last.providers)
    /\ BindingsOf(BindingsFound(n), last.node) = <<>>
    /\ \E other \in Nodes \ {last.node} : BindingsOf(BindingsFound(n), other) # <<>>

Joined(n) == BindingsOf(BindingsNow(n), last.node)[1].np

AutoNames(instanceIdent, networkID) ==
    LET qualified == instanceIdent.SubjectID \o "." \o instanceIdent.ServiceID
        numbered == ToString(instanceIdent.Instance) \o "." \o qualified
    IN IF instanceIdent.ServiceID = "" \/ instanceIdent.SubjectID = "" THEN {}
       ELSE {numbered, numbered \o "." \o networkID}
            \cup (IF instanceIdent.Instance = 0
                  THEN {qualified, qualified \o "." \o networkID} ELSE {})

\* C9: after a successful Prepare the DNS entry of the returned IP holds the
\* hosts passed in and the autogenerated names of the identity, and nothing
\* else; an identity with an empty ServiceID or SubjectID gets no
\* autogenerated name.
C9_DnsHasHosts ==
    PreparedOK =>
        /\ last.np.IP \in DOMAIN dnsHosts
        /\ Range(dnsHosts[last.np.IP])
              = Range(last.params.Hosts) \cup AutoNames(last.id, last.net)
        /\ (last.id.ServiceID = "" \/ last.id.SubjectID = "")
              => Range(dnsHosts[last.np.IP]) = Range(last.params.Hosts)

\* Instance 0 of a service has prepared again in the network it is in, with
\* a host of its own.
C9_Witness ==
    /\ PreparedOK
    /\ last.found /\ last.currentNetworkID = last.net
    /\ last.np = last.current
    /\ last.id = IdA
    /\ last.params.Hosts # <<>>
    /\ Range(dnsHosts[last.np.IP]) =
          {"h1", "0.sub.svc", "0.sub.svc." \o last.net, "sub.svc", "sub.svc." \o last.net}

InSubnet(ip, subnet) == ip \div (MaxHosts + 1) = subnet

\* C10: no rule a Prepare returns has a DstIP inside the Subnet returned for
\* the instance, and every rule has the returned IP as SrcIP.
C10_NoRuleIntoOwnSubnet ==
    last.op = "Prepare" =>
        \A k \in 1..Len(last.np.FirewallRules) :
            /\ ~InSubnet(last.np.FirewallRules[k].DstIP, last.np.Subnet)
            /\ last.np.FirewallRules[k].SrcIP = last.np.IP

\* A rule was returned while an instance of the allowed service that exposes
\* the port lives in the caller's own network.
C10_Witness ==
    /\ PreparedOK
    /\ Len(last.np.FirewallRules) = 1
    /\ \E i \in DOMAIN InstancesNow(last.net) :
          /\ i # last.id
          /\ i.ServiceID = "svc"
          /\ InSubnet(instancesData[last.net][i].NetworkParameters.IP, last.np.Subnet)
          /\ Len(instancesData[last.net][i].Rules) > 0

\* The tracked instances an AllowConnections entry of the latest Prepare may
\* be answered with: of the entry's service, with an IP outside the caller's
\* subnet, exposing the entry's port and protocol.
Targets(entry) ==
    {t \in UNION {{instancesData[n][i] : i \in DOMAIN instancesData[n]} :
                      n \in DOMAIN instancesData} :
        /\ t.InstanceIdent.ServiceID = entry.serviceID
        /\ ~InSubnet(t.NetworkParameters.IP, last.np.Subnet)
        /\ \E k \in 1..Len(t.Rules) :
              t.Rules[k].Port = entry.port /\ t.Rules[k].Protocol = entry.protocol}

\* The entries of the latest Prepare, as (serviceID, port, protocol).
Entries ==
    [k \in 1..Len(last.params.AllowConnections) |->
        parseAllowConnection(last.params.AllowConnections[k])]

Answered == LET hit(e) == Targets(e) # {} IN SelectSeq(Entries, hit)

\* C11: a Prepare never fails for want of a target, and a successful one
\* returns one rule for each entry that has a target, in the order of the
\* entries: from the caller's IP to the IP of one of the entry's targets, with
\* the entry's protocol and port.
C11_RulesFollowEntries ==
    last.op = "Prepare" =>
        /\ last.err # "errRuleNotFound"
        /\ last.err = "" =>
              /\ Len(last.np.FirewallRules) = Len(Answered)
              /\ \A k \in 1..Len(Answered) :
                    /\ last.np.FirewallRules[k].SrcIP = last.np.IP
                    /\ last.np.FirewallRules[k].Proto = Answered[k].protocol
                    /\ last.np.FirewallRules[k].DstPort = Answered[k].port
                    /\ \E t \in Targets(Answered[k]) :
                          last.np.FirewallRules[k].DstIP = t.NetworkParameters.IP

\* Of three entries the first and the last were answered, with rules that
\* differ, and the one between them had no target.
C11_Witness ==
    /\ PreparedOK
    /\ Len(Entries) = 3
    /\ Len(last.np.FirewallRules) = 2
    /\ last.np.FirewallRules[1].Proto = "udp"
    /\ last.np.FirewallRules[2].Proto = "tcp"
    /\ Targets(Entries[2]) = {}

\* The identities GetInstances returned when the latest call began.
InstancesFound ==
    UNION {DOMAIN last.before.instancesData[n] : n \in DOMAIN last.before.instancesData}

\* C12: after RemoveInstanceNetworkParameters of a tracked identity,
\* GetInstances returns every other identity it returned before and not that
\* one, and storage has no row of it; for an identity that is not tracked the
\* cache, the pools, the DNS registry and storage are as the call found them.
C12_RemoveForgets ==
    last.op = "Remove" =>
        IF last.found
        THEN /\ GetInstances(Mgr) = InstancesFound \ {last.id}
             /\ last.id \notin DOMAIN storageInstances
        ELSE Before = last.before

\* C13: after RemoveInstanceNetworkParameters of a tracked identity that held
\* IP a in network n, a is not in use in n's pool and the DNS registry has no
\* entry of a.
C13_RemoveReleases ==
    (last.op = "Remove" /\ last.found) =>
        /\ last.current.IP \notin ipamSubnet[last.currentNetworkID].used
        /\ last.current.IP \notin DOMAIN dnsHosts

\* Thread t is inside the read-modify-write of its call: it has read the
\* manager's state and has not yet returned.
InReadModifyWrite(t) ==
    \/ thread[t].pc \in {"locked", "unlock"}
    \/ thread[t].pc \in {"remove", "alloc", "store", "cache", "dns", "rules"}

\* C14: a public operation holds the manager's lock for the whole of its
\* read-modify-write: a thread inside it holds the lock, so no step of another
\* thread changes the shared state meanwhile.
C14_LockHeldThroughout ==
    /\ \A t \in Threads : InReadModifyWrite(t) => mutex = t
    /\ \A t1, t2 \in Threads :
          (InReadModifyWrite(t1) /\ InReadModifyWrite(t2)) => t1 = t2

\* The IP texts that the cache entries of network n hold: those of its
\* bindings and those of its instances.
HeldIPs(n) ==
    (IF n \in DOMAIN providerNetworks
     THEN {providerNetworks[n][k].np.IP : k \in 1..Len(providerNetworks[n])} ELSE {})
    \cup (IF n \in DOMAIN instancesData
          THEN {instancesData[n][i].NetworkParameters.IP : i \in DOMAIN instancesData[n]}
          ELSE {})

\* storage.AddNetworkInstanceInfo failed in the latest call, a Prepare.
InstanceNotPersisted == last.op = "Prepare" /\ last.f.addInst /\ last.err = "storage"

\* storage.AddNetworkInfo failed in the latest call, an Update.
BindingNotPersisted == last.op = "Update" /\ last.f.addNet > 0 /\ last.err = "storage"

PrepareRolledBack ==
    InstanceNotPersisted =>
        /\ last.np.IP \notin ipamSubnet[last.net].used
        /\ last.net \in DOMAIN instancesData => last.id \notin DOMAIN instancesData[last.net]

UpdateRolledBack ==
    BindingNotPersisted =>
        LET n == last.providers[last.f.addNet]
        IN /\ ipamSubnet[n].used \subseteq (HeldIPs(n) \cup last.before.ipamSubnet[n].used)
           /\ n \in DOMAIN providerNetworks =>
                 \A k \in 1..Len(providerNetworks[n]) :
                     providerNetworks[n][k].NodeID # last.node

\* C15: when storage.AddNetworkInstanceInfo fails in a Prepare, or
\* storage.AddNetworkInfo fails while an Update makes a binding, the call
\* returns an error, the IP it allocated is released in the IPAM and no cache
\* entry exists for the instance or the binding.
C15_PersistenceFailureRolledBack == PrepareRolledBack /\ UpdateRolledBack

\* The latest call is a Prepare that made a binding and then failed in
\* dns.addHosts.
DnsFailedAfterCreate ==
    /\ last.op = "Prepare" /\ last.err = "dns"
    /\ ~(last.found /\ last.currentNetworkID = last.net)

\* The latest call repeats the Prepare before it, which failed in dns.addHosts.
RetryAfterDnsFailure ==
    /\ last.op = "Prepare"
    /\ last.prev.op = "Prepare" /\ last.prev.err = "dns"
    /\ last.prev.id = last.id /\ last.prev.net = last.net

BindingStays ==
    DnsFailedAfterCreate =>
        /\ last.net \in DOMAIN instancesData
        /\ last.id \in DOMAIN instancesData[last.net]
        /\ instancesData[last.net][last.id].NetworkParameters.IP = last.np.IP
        /\ last.id \in DOMAIN storageInstances
        /\ storageInstances[last.id].NetworkParameters.NetworkID = last.net
        /\ storageInstances[last.id].NetworkParameters.IP = last.np.IP
        /\ last.np.IP \in ipamSubnet[last.net].used

RetryReuses ==
    RetryAfterDnsFailure =>
        /\ last.net \in DOMAIN last.before.instancesData
        /\ last.id \in DOMAIN last.before.instancesData[last.net]
        /\ ipamSubnet = last.before.ipamSubnet
        /\ last.err \in {"", "dns"} =>
             LET kept == last.before.instancesData[last.net][last.id].NetworkParameters
             IN last.np.IP = kept.IP /\ last.np.Subnet = kept.Subnet

\* C16: when dns.addHosts fails in a Prepare, the error is returned and the
\* binding the call made stays in the cache and in storage with its IP in use
\* in the IPAM; the same call made again reuses that binding: it returns the
\* same IP and Subnet and allocates nothing.
C16_DnsFailureKeepsBinding == BindingStays /\ RetryReuses

\* C17: whatever allocateDevices calls were made, with whatever lists and
\* whether they failed or not, every device of every node has
\* 0 <= allocatedCount <= sharedCount.
C17_AllocatedWithinShared ==
    \A n \in 1..Len(nodes) :
        \A i \in 1..Len(nodes[n].availableDevices) :
            /\ 0 <= nodes[n].availableDevices[i].allocatedCount
            /\ nodes[n].availableDevices[i].allocatedCount
                  <= nodes[n].availableDevices[i].sharedCount

\* A list that names gpu twice was refused on a node all of whose gpu shares
\* are taken.
C17_Witness ==
    /\ placed.op = "allocate" /\ placed.err # ""
    /\ placed.request.devices = <<"gpu", "gpu">>
    /\ \E n \in 1..Len(nodes) :
          /\ nodes[n].nodeID = placed.node
          /\ \E i \in 1..Len(nodes[n].availableDevices) :
                /\ nodes[n].availableDevices[i].name = "gpu"
                /\ nodes[n].availableDevices[i].sharedCount = MaxShared
                /\ nodes[n].availableDevices[i].allocatedCount = MaxShared

\* The node has, for each device asked for, a device of that name with a
\* share left.
HasFreeShares(node, desiredDevices) ==
    \A k \in 1..Len(desiredDevices) :
        \E i \in 1..Len(node.availableDevices) :
            /\ node.availableDevices[i].name = desiredDevices[k]
            /\ node.availableDevices[i].sharedCount > 0
            /\ node.availableDevices[i].allocatedCount < node.availableDevices[i].sharedCount

\* The latest placement got as far as the devices filter.
DevicesFiltered == placed.op = "place" /\ placed.err \notin {"runners", "labels", "resources"}

\* C18: the devices filter keeps exactly the nodes that have, for each
\* requested device, a device of that name with SharedCount > 0 and
\* AllocatedCount < SharedCount; a device with SharedCount = 0 makes no node
\* match.
C18_DevicesFilterExact ==
    DevicesFiltered =>
        LET free(node) == HasFreeShares(node, placed.request.devices)
        IN placed.byDevices = SelectSeq(placed.static, free)

DeviceNames == {"gpu", "cam"}

\* The devices named name of the handler of nodeID in handlers.
DevicesOf(handlers, nodeID, name) ==
    {dv \in UNION {Range(handlers[n].availableDevices) :
                      n \in {k \in 1..Len(handlers) : handlers[k].nodeID = nodeID}} :
        dv.name = name}

NodeIDs(handlers) == {handlers[n].nodeID : n \in 1..Len(handlers)}

\* In the latest call, node x had device d with shares, all of them taken.
Exhausted(x, d) ==
    \E b \in DevicesOf(placed.before, x, d) : b.sharedCount > 0 /\ b.allocatedCount = b.sharedCount

\* In the latest call, node x had device d with a share left.
ShareLeft(x, d) ==
    \E b \in DevicesOf(placed.before, x, d) : b.sharedCount > 0 /\ b.allocatedCount < b.sharedCount

\* The latest call allocated, or tried to, the devices asked for on node x.
AllocatedOn(x) == placed.op \in {"place", "allocate"} /\ placed.node = x

Survivors(handlers, request) ==
    LET byDevices(s) ==
            IF s.err # "" THEN {}
            ELSE NodeIDs(getNodesByDevices(s.nodes, request.devices).nodes)
    IN byDevices(getNodesByStaticResources(handlers, request))

RemoveAt(list, k) == [i \in 1..(Len(list) - 1) |-> IF i < k THEN list[i] ELSE list[i + 1]]

Capabilities == {"runners", "availableLabels", "availableResources", "availableDevices"}

\* handlers after the k-th capability of the given kind is removed from the
\* n-th of them.
Without(handlers, n, kind, k) ==
    [handlers EXCEPT ![n] =
        CASE kind = "runners" -> [@ EXCEPT !.runners = RemoveAt(@, k)]
          [] kind = "availableLabels" -> [@ EXCEPT !.availableLabels = RemoveAt(@, k)]
          [] kind = "availableResources" -> [@ EXCEPT !.availableResources = RemoveAt(@, k)]
          [] kind = "availableDevices" -> [@ EXCEPT !.availableDevices = RemoveAt(@, k)]]

\* The removals of one capability from one node: [n, kind, k].
Removals(handlers) ==
    {r \in [n : 1..Len(handlers), kind : Capabilities, k : 1..3] :
        r.k <= Len(handlers[r.n][r.kind])}

\* The removal takes the last runner of its node.
TakesLastRunner(handlers, r) == r.kind = "runners" /\ Len(handlers[r.n].runners) = 1

\* C20 as stated: whatever capability is removed from whatever node, the
\* nodes that survive the filters are among those that survived before.
C20_RemovalShrinks ==
    placed.op = "place" =>
        \A r \in Removals(placed.before) :
            Survivors(Without(placed.before, r.n, r.kind, r.k), placed.request)
                \subseteq NodeIDs(placed.byDevices)

\* C20, amended: the nodes that survive the filters after a label, a
\* resource or a device is removed from a node, or a runner from a node that
\* keeps another runner, are among those that survived before; and the
\* survivors recorded are those of the filters applied in their order.
C20_RemovalShrinksButLastRunner ==
    placed.op = "place" =>
        /\ NodeIDs(placed.byDevices) = Survivors(placed.before, placed.request)
        /\ \A r \in Removals(placed.before) :
              ~TakesLastRunner(placed.before, r) =>
                  Survivors(Without(placed.before, r.n, r.kind, r.k), placed.request)
                      \subseteq NodeIDs(placed.byDevices)

\* Both nodes survived; without one of its labels node1 does not; without
\* one of its two runners node2 still does.
C20_Witness ==
    /\ placed.op = "place"
    /\ NodeIDs(placed.byDevices) = {"node1", "node2"}
    /\ \E r \in Removals(placed.before) :
          /\ r.kind = "availableLabels"
          /\ Survivors(Without(placed.before, r.n, r.kind, r.k), placed.request) = {"node2"}
    /\ \E r \in Removals(placed.before) :
          /\ r.kind = "runners" /\ ~TakesLastRunner(placed.before, r)
          /\ "node2" \in Survivors(Without(placed.before, r.n, r.kind, r.k), placed.request)

\* The latest placement chose a node among the survivors of the filters.
Chosen == placed.op = "place" /\ placed.node # ""

\* The indices of the survivors of the highest priority.
Highest(handlers) ==
    {i \in 1..Len(handlers) :
        \A j \in 1..Len(handlers) : handlers[j].priority <= handlers[i].priority}

\* C21: of a non-empty list of surviving nodes getMostPriorityNode returns a
\* node of the highest priority of the list, the one at the smallest index
\* among those of that priority; of a list of one node it returns that node.
C21_FirstOfHighestPriority ==
    Chosen =>
        /\ Len(placed.byDevices) > 0
        /\ placed.node = placed.byDevices[SetMin(Highest(placed.byDevices))].nodeID
        /\ Len(placed.byDevices) = 1 => placed.node = placed.byDevices[1].nodeID

\* node1 comes first and was chosen though node2, later in the list, has the
\* same priority.
C21_Witness ==
    /\ Chosen
    /\ placed.node = "node1" /\ placed.byDevices[1].nodeID = "node1"
    /\ \E j \in 2..Len(placed.byDevices) :
          /\ placed.byDevices[j].nodeID = "node2"
          /\ placed.byDevices[j].priority = placed.byDevices[1].priority

\* The node offers a requested runner: its runner list has one, or it has no
\* runner list and a default runner is asked for.
OffersRunner(node, runners) ==
    \E r \in Range(IF Len(runners) = 0 THEN defaultRunners ELSE runners) :
        \/ r \in Range(node.runners)
        \/ Len(node.runners) = 0 /\ r \in Range(defaultRunners)

HasAll(available, desired) ==
    Len(desired) = 0 \/ (Len(available) # 0 /\ Range(desired) \subseteq Range(available))

NoNodeTwice(handlers) ==
    \A i, j \in 1..Len(handlers) : handlers[i].nodeID = handlers[j].nodeID => i = j

RunnersStageExact ==
    placed.op = "place" =>
        LET ok(node) == OffersRunner(node, placed.request.runners)
        IN /\ placed.byRunners = SelectSeq(placed.before, ok)
           /\ NoNodeTwice(placed.byRunners)

LabelsStageExact ==
    (placed.op = "place" /\ placed.err # "runners") =>
        LET ok(node) == HasAll(node.availableLabels, placed.request.labels)
        IN placed.byLabels = SelectSeq(placed.byRunners, ok)

ResourcesStageExact ==
    (placed.op = "place" /\ placed.err \notin {"runners", "labels"}) =>
        LET ok(node) == HasAll(node.availableResources, placed.request.resources)
        IN placed.static = SelectSeq(placed.byLabels, ok)

DevicesStageExact ==
    DevicesFiltered =>
        LET ok(node) == nodeHasDesiredDevices(node, placed.request.devices)
        IN placed.byDevices = SelectSeq(placed.static, ok)

\* C22: each filter returns the nodes of its input that satisfy its
\* predicate, all of them, each once and in the order of the input.
C22_FiltersReturnSubsets ==
    /\ RunnersStageExact /\ LabelsStageExact /\ ResourcesStageExact /\ DevicesStageExact
    /\ placed.op = "place" => NoNodeTwice(placed.byDevices)

\* The handler, before the latest call, of the node the call was made on.
NodeBefore == CHOOSE node \in Range(placed.before) : node.nodeID = placed.node

\* C26: the devices filter accepts a node for a device list exactly when
\* allocateDevices succeeds for that list on the node in the same state.
C26_FilterAgreesWithAllocation ==
    placed.op = "allocate" =>
        (nodeHasDesiredDevices(NodeBefore, placed.request.devices) <=> placed.err = "")

\* C27: an allocation that returns an error leaves the allocated count of
\* every device of the node as it was before the call.
C27_AllocationAllOrNothing ==
    (placed.op \in {"place", "allocate"} /\ placed.err = "can't allocate device") =>
        nodes = placed.before

NoTwice(q) == \A i, j \in 1..Len(q) : q[i] = q[j] => i = j

Scheduled == placed.op = "addRunRequest"

\* The run request of the node of the latest addRunRequest, in handlers.
RunRequestIn(handlers) ==
    (CHOOSE node \in Range(handlers) : node.nodeID = placed.node).currentRunRequest

RECURSIVE InstancesIn(_, _)
InstancesIn(handlers, k) ==
    IF k > Len(handlers) THEN 0
    ELSE Len(handlers[k].currentRunRequest.Instances) + InstancesIn(handlers, k + 1)

\* C23: whatever instances were scheduled on a node, its run request holds
\* no service descriptor twice and no layer descriptor twice, the descriptors
\* being those with the remote URL on a remote node; every call appends its
\* instance, so that the run requests hold one instance for each call made.
C23_RunRequestDeduplicated ==
    /\ \A i \in 1..Len(nodes) :
          /\ NoTwice(nodes[i].currentRunRequest.Services)
          /\ NoTwice(nodes[i].currentRunRequest.Layers)
    /\ InstancesIn(nodes, 1) = calls
    /\ Scheduled =>
          RunRequestIn(nodes).Instances =
              Append(RunRequestIn(placed.before).Instances, placed.instance)

\* On the remote node an instance is scheduled a second time, with a service
\* and a layer that differ from the scheduled ones in their local URL only:
\* the instance is appended, the service and the layer are not.
C23_Witness ==
    /\ Scheduled /\ placed.node = "node2"
    /\ placed.instance \in Range(RunRequestIn(placed.before).Instances)
    /\ Len(placed.layers) > 0
    /\ RunRequestIn(placed.before).Services # <<>>
    /\ RunRequestIn(nodes).Services = RunRequestIn(placed.before).Services
    /\ RunRequestIn(nodes).Layers = RunRequestIn(placed.before).Layers
    /\ placed.service.ServiceInfo \notin Range(RunRequestIn(placed.before).Services)
    /\ Len(RunRequestIn(nodes).Instances) = Len(RunRequestIn(placed.before).Instances) + 1

\* The positions of the latest call's log at which the call c was made.
CallsOf(c) == {k \in 1..Len(last.log) : last.log[k].call = c}

\* The binding of last.node in network n was made by the latest call.
CreatedByUpdate(n, np) ==
    ~(/\ n \in DOMAIN last.before.providerNetworks
      /\ Binding(np, last.node) \in Range(last.before.providerNetworks[n]))

\* C24: an UpdateProviderNetwork calls NodeManager.UpdateNetwork at most
\* once, for its node, after the storage.AddNetworkInfo of every binding it
\* made, with one NetworkParameters for each requested provider, in the order
\* of the request and with the provider as NetworkID; when a binding cannot
\* be made the error is returned and UpdateNetwork is not called.
C24_PublishedOnceAfterPersisted ==
    last.op = "Update" =>
        /\ Cardinality(CallsOf("UpdateNetwork")) <= 1
        /\ last.err \in {"storage", "exhausted"} <=> CallsOf("UpdateNetwork") = {}
        /\ \A k \in CallsOf("UpdateNetwork") :
              /\ \A j \in CallsOf("AddNetworkInfo") : j < k
              /\ last.log[k].node = last.node
              /\ Len(last.log[k].list) = Len(last.providers)
              /\ \A i \in 1..Len(last.providers) :
                    LET np == last.log[k].list[i]
                    IN /\ np.NetworkID = last.providers[i]
                       /\ CreatedByUpdate(last.providers[i], np) =>
                             /\ Binding(np, last.node) \in storageNetworks
                             /\ \E j \in CallsOf("AddNetworkInfo") :
                                   /\ last.log[j].net = last.providers[i]
                                   /\ last.log[j].node = last.node

\* An update for two providers made both bindings and then published them.
C24_Witness ==
    /\ last.op = "Update" /\ last.err = ""
    /\ Len(last.providers) = 2 /\ last.providers[1] # last.providers[2]
    /\ Cardinality(CallsOf("AddNetworkInfo")) = 2
    /\ CallsOf("UpdateNetwork") = {Len(last.log)}
    /\ \A i \in 1..2 : CreatedByUpdate(last.providers[i], last.log[Len(last.log)].list[i])

\* Every IP in use in a pool is held by a binding or an instance of the cache.
NoIPLeaked == \A n \in Networks : ipamSubnet[n].used \subseteq HeldIPs(n)

\* t1 and t2 have both returned without error from a
\* PrepareInstanceNetworkParameters for one identity, which was unbound when
\* t1 looked it up; t2 called while t1 was in its call.
PreparedConcurrently(t1, t2) ==
    /\ t1 # t2
    /\ thread[t1].pc = "idle" /\ thread[t1].op = "Prepare" /\ thread[t1].err = ""
    /\ thread[t2].pc = "idle" /\ thread[t2].op = "Prepare" /\ thread[t2].err = ""
    /\ thread[t1].id = thread[t2].id
    /\ ~thread[t1].found
    /\ thread[t2].concurrent

\* C25: after two concurrent PrepareInstanceNetworkParameters for an unbound
\* identity have returned, the identity is tracked under one network, no IP
\* is in use but those the cache holds, and each caller was returned the IP
\* that the cache and the storage record for the identity.
C25_ConcurrentPrepareBindsOnce ==
    \A t1, t2 \in Threads : PreparedConcurrently(t1, t2) =>
        LET id == thread[t1].id
        IN /\ Cardinality(TrackedUnder(instancesData, id)) = 1
           /\ NoIPLeaked
           /\ \A n \in TrackedUnder(instancesData, id), t \in {t1, t2} :
                 /\ thread[t].np.IP = IPOf(instancesData, n, id)
                 /\ id \in DOMAIN storageInstances
                 /\ storageInstances[id].NetworkParameters.IP = thread[t].np.IP

\* Thread t is about to call manager.Lock().
Acquires(t) == thread[t].pc \in {"lock", "cache"}

\* C28: no thread calls Lock() on the manager's mutex while it holds it, a
\* thread that holds it is in the locked part of a Remove, a GetInstances or
\* an Update, and every call that was begun returns, the caller not holding
\* the mutex afterwards.
C28_NoDeadlock ==
    /\ [](\A t \in Threads : Acquires(t) => mutex # t)
    /\ [](\A t \in Threads : mutex = t => thread[t].pc \in {"locked", "unlock"})
    /\ [](\A t \in Threads : thread[t].pc = "idle" => mutex # t)
    /\ \A t \in Threads : (thread[t].pc # "idle") ~> (thread[t].pc = "idle" /\ mutex # t)

\* A thread in PrepareInstanceNetworkParameters is about to lock for the
\* write of the cache while another thread holds the mutex.
C28_Witness ==
    \E t, u \in Threads :
        /\ t # u
        /\ thread[t].pc = "cache"
        /\ mutex = u /\ thread[u].pc = "locked"

====
